---- MODULE Spec2Model ----
(***************************************************************************)
(* State-machine model of the MobiGadget RSS -> Blogger auto posters.      *)
(*                                                                         *)
(* The repository holds several complete programs.  The ones modelled      *)
(* here are                                                                *)
(*   part_000            src/unnamed/part_000 (filter, then cap; uses the  *)
(*                       PROCESSED_CACHE set and the title_slug column),   *)
(*   part_001 (first)    src/unnamed/part_001 lines 1-420 (cap, then       *)
(*                       check; sharp image transform),                    *)
(*   app.js (first)      src/app.js lines 1-199 (cap, then check; posted   *)
(*                       table without title_slug),                       *)
(*   app.js (second)     src/app.js lines 201-672 (several feeds, one item *)
(*                       per pass),                                        *)
(*   app.js (third)      src/app.js lines 674-937 (filter, then cap).      *)
(*                                                                         *)
(* Every `await` of processOnce is a suspension point of the JavaScript    *)
(* event loop: the code between two awaits runs atomically and is one      *)
(* step of the model.  An external call is resolved, nondeterministically, *)
(* by the step that resumes after it.                                      *)
(***************************************************************************)
EXTENDS Integers, Sequences, FiniteSets, TLC

\* ------------------------------------------------------------------ bounds
\* Longest feed snapshot the feed source returns.
MaxFeedLen == 2
\* Largest configured MAX_ITEMS_PER_RUN.
MaxBatch == 2
\* Number of processOnce executions that can be in progress at once.
MaxPasses == 2
\* Number of times the process is started again on the same ledger file.
MaxRestarts == 1
\* The trigger stops firing once blogger.posts.insert was called this many
\* times for one item (these programs call it again after a rejection).
MaxInsertCalls == 2

\* ------------------------------------------------------------ text helpers
\* Titles are sequences of one-character strings.
Min(a, b) == IF a < b THEN a ELSE b

\* String.prototype.toLowerCase on the characters the model uses.
toLowerCase(c) ==
  CASE c = "A" -> "a"
    [] c = "B" -> "b"
    [] c = "P" -> "p"
    [] c = "X" -> "x"
    [] c = "L" -> "l"
    [] OTHER -> c

\* The class \w of a JavaScript regular expression: [A-Za-z0-9_].
WordChars ==
  {"a", "b", "c", "d", "e", "h", "l", "n", "o", "p", "u", "x",
   "A", "B", "P", "X", "L", "0", "1", "2", "_"}
\* The class \s (the model uses the space and the tab).
SpaceChars == {" ", "\t"}

\* .toLowerCase(), character by character.
MapLower(s) == [i \in 1..Len(s) |-> toLowerCase(s[i])]

\* .replace(/[^\w\s]/g, ''): drops every character that is neither \w nor \s.
StripNonWord(s) == SelectSeq(s, LAMBDA c : c \in WordChars \cup SpaceChars)

\* .replace(/\s+/g, '-'): every maximal run of whitespace becomes one hyphen
\* (the last character of the run is replaced, the others are dropped).
HyphenateSpaces(s) ==
  LET marked == [i \in 1..Len(s) |->
        IF s[i] \notin SpaceChars THEN s[i]
        ELSE IF i < Len(s) /\ s[i + 1] \in SpaceChars THEN "" ELSE "-"]
  IN  SelectSeq(marked, LAMBDA c : c # "")

\* .substring(0, 100)
SlugMaxLen == 100

generateSlug(title) ==
  LET s == HyphenateSpaces(StripNonWord(MapLower(title)))
  IN  SubSeq(s, 1, Min(Len(s), SlugMaxLen))

\* ------------------------------------------------------------- feed items
\* A feed item as rss-parser returns it.  guid = "" stands for an item
\* without <guid> (item.guid || item.link treats both alike).
NoGuid == ""

T_AB   == <<"A", " ", "b">>
T_ab   == <<"a", " ", " ", "B", "!">>
T_c    == <<"c">>

\* The body of an item (item['content:encoded'] || item.content || snippet)
\* is a sequence of HTML elements; src = "" stands for an element without a
\* src attribute, or with an empty one.
Para       == [tag |-> "p",   src |-> ""]
Img(url)   == [tag |-> "img", src |-> url]

BodyWithImage    == <<Para, Img(""), Img("http://a/1.jpg"), Img("http://a/2.jpg")>>
BodyWithoutImage == <<Para, Img(""), Para>>

ItemA == [guid |-> "g1",   link |-> "l1", title |-> T_AB, content |-> BodyWithImage]
ItemB == [guid |-> NoGuid, link |-> "l2", title |-> T_c,  content |-> BodyWithoutImage]
ItemC == [guid |-> "g3",   link |-> "l3", title |-> T_ab, content |-> BodyWithImage]

Items == {ItemA, ItemB, ItemC}

\* const guid = item.guid || item.link;
identity(item) == IF item.guid # NoGuid THEN item.guid ELSE item.link

Identities == {identity(it) : it \in Items}

RECURSIVE SeqsUpTo(_, _)
SeqsUpTo(S, n) ==
  IF n = 0 THEN {<<>>}
  ELSE LET shorter == SeqsUpTo(S, n - 1)
       IN  shorter \cup {Append(s, x) : s \in {t \in shorter : Len(t) = n - 1}, x \in S}

\* The snapshots parser.parseURL can resolve to.
Feeds == SeqsUpTo(Items, MaxFeedLen)


\* ------------------------------------------------------------------ state
VARIABLES
  MODE,               \* "once" | "cron"            (process.env.MODE)
  MAX_ITEMS_PER_RUN,  \* the batch size N
  proc,               \* "running" | "exit0" | "exit1"
  cronScheduled,      \* cron.schedule(POST_INTERVAL_CRON, processOnce) was called
  posted,             \* the rows of table `posted`, in insertion order
  PROCESSED_CACHE,    \* the in-memory Set of guids
  passes,             \* the executions of processOnce, by slot
  published,          \* identity -> number of posts blogger.posts.insert created
  insertCalls,        \* identity -> calls of blogger.posts.insert by this process
  ledgerWriteFailed,  \* some stmt.run of markPosted threw
  restarts,           \* how many times the process was started again
  program,            \* which of the repository's programs is running
  call,               \* the latest calls of markPosted (ledger specification)
  feedItems,          \* the snapshot a filter is applied to (filter specification)
  candidates,         \* the itemsToProcess it computed (filter specification)
  slugCall,           \* a call of generateSlug: its title and what it returned
  rewriterSkipped,    \* identities this process skipped after a rewriter failure
  env                 \* the credentials set in process.env

vars == <<MODE, MAX_ITEMS_PER_RUN, proc, cronScheduled, posted, PROCESSED_CACHE,
          passes, published, insertCalls, ledgerWriteFailed, restarts,
          program, call, feedItems, candidates, slugCall, rewriterSkipped, env>>

config == <<MODE, MAX_ITEMS_PER_RUN, program, env>>

\* What the steps of a running program leave alone.
aux == <<call, feedItems, candidates, slugCall, rewriterSkipped>>

PassIds == 1..MaxPasses

\* A slot in which no processOnce is in progress.  `items` is what the
\* iterator of `for (const item of itemsToProcess)` still has to yield, the
\* item being processed first; articleData and finalImageUrl are the locals
\* of the loop body, kept while the code still reads them.
IdlePass ==
  [pc |-> "idle", items |-> <<>>, articleData |-> "none", finalImageUrl |-> "null"]

InProgress(p) == passes[p].pc # "idle"

\* ----------------------------------------------------------------- ledger
\* CREATE TABLE posted: guid, link and title_slug are UNIQUE; id is the
\* AUTOINCREMENT key.  published_at / posted_at are timestamps no decision
\* of the program reads, and are left out of the rows.
Rows(tbl) == {tbl[k] : k \in 1..Len(tbl)}

MaxId(tbl) ==
  IF tbl = <<>> THEN 0
  ELSE CHOOSE m \in {r.id : r \in Rows(tbl)} : \A r \in Rows(tbl) : r.id <= m

\* The rows of `tbl` a new row (guid, link, slug) would violate a UNIQUE
\* constraint with.
Conflicts(tbl, guid, link, slug) ==
  {r \in Rows(tbl) : r.guid = guid \/ r.link = link \/ r.title_slug = slug}

NewRow(tbl, guid, link, title) ==
  [id |-> MaxId(tbl) + 1, guid |-> guid, link |-> link, title |-> title,
   title_slug |-> generateSlug(title)]

\* What stmt.run leaves: the table, and whether it threw.
\* INSERT OR IGNORE INTO posted (guid, link, title, title_slug, published_at):
\* a row that violates a UNIQUE constraint is skipped, without an error.
insertOrIgnore(tbl, guid, link, title) ==
  IF Conflicts(tbl, guid, link, generateSlug(title)) # {}
    THEN [tbl |-> tbl, threw |-> FALSE]
    ELSE [tbl |-> Append(tbl, NewRow(tbl, guid, link, title)), threw |-> FALSE]

\* hasBeenPosted without `if (PROCESSED_CACHE.has(guid)) return true`: only
\* the table is asked.
hasBeenPostedNoCache(cache, tbl, guid, link, title) ==
  \E r \in Rows(tbl) :
    r.guid = guid \/ r.link = link \/ r.title_slug = generateSlug(title)

\* hasBeenPosted of part_000: the cache is asked first, by guid only; the
\* table is asked for a row with the guid, the link or the title slug.
hasBeenPosted(cache, tbl, guid, link, title) ==
  \/ guid \in cache
  \/ \E r \in Rows(tbl) :
       r.guid = guid \/ r.link = link \/ r.title_slug = generateSlug(title)

\* The cap applied before the filter (the order of part_001's first program).
sliceThenFilter(feed, cache, tbl, n) ==
  SelectSeq(SubSeq(feed, 1, Min(Len(feed), n)),
            LAMBDA item : ~hasBeenPosted(cache, tbl, identity(item), item.link, item.title))

\* feed.items.filter(item => !hasBeenPosted(...)).slice(0, MAX_ITEMS_PER_RUN)
itemsToProcess(feed, cache, tbl, n) ==
  LET fresh == SelectSeq(feed, LAMBDA item :
                 ~hasBeenPosted(cache, tbl, identity(item), item.link, item.title))
  IN  SubSeq(fresh, 1, Min(Len(fresh), n))

\* ------------------------------------------------------ part_000: a pass
Bump(f, id) == [f EXCEPT ![id] = @ + 1]

\* start() without its MODE test: cron.schedule follows the first pass in
\* once mode too, and process.exit(0) is never called.
ReturnFromPassSchedules(p) ==
  /\ passes' = [passes EXCEPT ![p] = IdlePass]
  /\ cronScheduled' = TRUE
  /\ UNCHANGED proc

\* processOnce returns (or its catch block ran): the promise settles.  When
\* it is the pass start() awaits, start() continues: process.exit(0) in once
\* mode, cron.schedule otherwise.
ReturnFromPass(p) ==
  /\ passes' = [passes EXCEPT ![p] = IdlePass]
  /\ IF ~cronScheduled
       THEN IF MODE = "once"
              THEN proc' = "exit0" /\ UNCHANGED cronScheduled
              ELSE cronScheduled' = TRUE /\ UNCHANGED proc
       ELSE UNCHANGED <<proc, cronScheduled>>

\* The loop head without PROCESSED_CACHE.add(guid): the guid reaches the
\* cache only in markPosted.
BeginItemNoCacheAdd(p, its, cache) ==
  /\ PROCESSED_CACHE' = cache
  /\ passes' = [passes EXCEPT ![p] =
       [pc |-> "generateArticleAndMetadata", items |-> its,
        articleData |-> "none", finalImageUrl |-> "null"]]
  /\ UNCHANGED <<proc, cronScheduled>>

\* The head of `for (const item of itemsToProcess)` with `its` left to
\* process: the guid of the first goes into PROCESSED_CACHE and
\* generateArticleAndMetadata is awaited.
BeginItem(p, its, cache) ==
  /\ PROCESSED_CACHE' = cache \cup {identity(Head(its))}
  /\ passes' = [passes EXCEPT ![p] =
       [pc |-> "generateArticleAndMetadata", items |-> its,
        articleData |-> "none", finalImageUrl |-> "null"]]
  /\ UNCHANGED <<proc, cronScheduled>>

\* The loop without the step of its iterator: it begins the item it just
\* left again.
AdvanceSameItem(p, cache) == BeginItem(p, passes[p].items, cache)

\* The loop moves on from the current item: the next item, or the end of
\* the loop.
Advance(p, cache) ==
  IF Len(passes[p].items) > 1
    THEN BeginItem(p, Tail(passes[p].items), cache)
    ELSE PROCESSED_CACHE' = cache /\ ReturnFromPass(p)

CurrentItem(p) == Head(passes[p].items)

\* await parser.parseURL(GSMARENA_RSS) settles.
FeedFetched(p) ==
  /\ proc = "running"
  /\ passes[p].pc = "parseURL"
  /\ \/ \* the fetch rejects, or the feed has no items
        /\ ReturnFromPass(p)
        /\ UNCHANGED PROCESSED_CACHE
     \/ \E feed \in Feeds \ {<<>>} :
          LET its == itemsToProcess(feed, PROCESSED_CACHE, posted, MAX_ITEMS_PER_RUN)
          IN  IF its = <<>>
                THEN ReturnFromPass(p) /\ UNCHANGED PROCESSED_CACHE
                ELSE BeginItem(p, its, PROCESSED_CACHE)
  /\ UNCHANGED <<config, aux, posted, published, insertCalls, ledgerWriteFailed, restarts>>

\* The loop body without `if (!articleData || !articleData.article_body)
\* continue`: whatever generateArticleAndMetadata returned, the image search
\* is awaited.
ArticleGeneratedNoCheck(p) ==
  /\ proc = "running"
  /\ passes[p].pc = "generateArticleAndMetadata"
  /\ \E a \in {"none", "full", "partial"} :
       passes' = [passes EXCEPT ![p].articleData = a,
                                ![p].pc = "fetchUnsplashImage"]
  /\ UNCHANGED <<config, aux, proc, cronScheduled, posted, PROCESSED_CACHE, published,
                 insertCalls, ledgerWriteFailed, restarts>>

\* await generateArticleAndMetadata(...) settles: null (the call or the
\* JSON parse threw), an object without article_body, a complete object
\* ("full"), or an object with article_body but without meta_tags or
\* search_description ("partial").
ArticleGenerated(p) ==
  /\ proc = "running"
  /\ passes[p].pc = "generateArticleAndMetadata"
  /\ \/ \* !articleData || !articleData.article_body: continue
        /\ Advance(p, PROCESSED_CACHE)
        /\ rewriterSkipped' = rewriterSkipped \cup {identity(CurrentItem(p))}
     \/ \E a \in {"full", "partial"} :
          /\ passes' = [passes EXCEPT ![p].articleData = a,
                                      ![p].pc = "fetchUnsplashImage"]
          /\ UNCHANGED <<PROCESSED_CACHE, proc, cronScheduled, rewriterSkipped>>
  /\ UNCHANGED <<config, call, feedItems, candidates, slugCall, posted, published,
                 insertCalls, ledgerWriteFailed, restarts>>

\* await fetchUnsplashImage(articleData.alt_text) settles: a URL, and the
\* upload is awaited, or null.
UnsplashFetched(p) ==
  /\ proc = "running"
  /\ passes[p].pc = "fetchUnsplashImage"
  /\ \/ passes' = [passes EXCEPT ![p].pc = "uploadExternalImageToBlogger"]
     \/ passes' = [passes EXCEPT ![p].pc = "classifyCategory"]
  /\ UNCHANGED <<config, aux, proc, cronScheduled, posted, PROCESSED_CACHE, published,
                 insertCalls, ledgerWriteFailed, restarts>>

\* await uploadExternalImageToBlogger(...) settles: the uploaded URL, or
\* null and the Unsplash URL is used.
ImageUploaded(p) ==
  /\ proc = "running"
  /\ passes[p].pc = "uploadExternalImageToBlogger"
  /\ \E url \in {"blogger", "unsplash"} :
       passes' = [passes EXCEPT ![p].finalImageUrl = url,
                                ![p].pc = "classifyCategory"]
  /\ UNCHANGED <<config, aux, proc, cronScheduled, posted, PROCESSED_CACHE, published,
                 insertCalls, ledgerWriteFailed, restarts>>

\* await classifyCategory(title) settles (it never throws).  The labels and
\* the HTML are built: articleData.meta_tags.split / search_description.slice
\* throw on a partial object and the catch of processOnce ends the pass.
\* Otherwise blogger.posts.insert is called; the locals articleData and
\* finalImageUrl are not read after the call.
CategoryClassified(p) ==
  /\ proc = "running"
  /\ passes[p].pc = "classifyCategory"
  /\ IF passes[p].articleData = "partial"
       THEN /\ ReturnFromPass(p)
            /\ UNCHANGED insertCalls
       ELSE /\ passes' = [passes EXCEPT ![p].pc = "posts_insert",
                                        ![p].articleData = "none",
                                        ![p].finalImageUrl = "null"]
            /\ insertCalls' = Bump(insertCalls, identity(CurrentItem(p)))
            /\ UNCHANGED <<proc, cronScheduled>>
  /\ UNCHANGED <<config, aux, posted, PROCESSED_CACHE, published, ledgerWriteFailed, restarts>>

\* INSERT OR REPLACE in place of INSERT OR IGNORE: the conflicting rows are
\* deleted and the new row is inserted.
markPostedReplace(tbl, guid, link, title) ==
  LET gone == Conflicts(tbl, guid, link, generateSlug(title))
  IN  [tbl |-> Append(SelectSeq(tbl, LAMBDA r : r \notin gone),
                      NewRow(tbl, guid, link, title)),
       threw |-> FALSE]

\* The table without the UNIQUE constraint on title_slug (the schema of the
\* programs of app.js): only guid and link reject a row.
markPostedNoSlugKey(tbl, guid, link, title) ==
  IF \E r \in Rows(tbl) : r.guid = guid \/ r.link = link
    THEN [tbl |-> tbl, threw |-> FALSE]
    ELSE [tbl |-> Append(tbl, NewRow(tbl, guid, link, title)), threw |-> FALSE]

\* markPosted without its stmt.run: nothing is written.
markPostedNoWrite(tbl, guid, link, title) == [tbl |-> tbl, threw |-> FALSE]

\* markPosted({ guid, link, title, published_at }) of part_000: what
\* stmt.run leaves in the table (PROCESSED_CACHE.add(guid) is done by the
\* action that calls it).
markPosted(tbl, guid, link, title) == insertOrIgnore(tbl, guid, link, title)

\* The steps after a successful blogger.posts.insert, up to the next await:
\* markPosted, then `if (MODE === 'once') return; await sleep(2000)`.
CommitPublished(p) ==
  LET item == CurrentItem(p)
      done == markPosted(posted, identity(item), item.link, item.title)
  IN  /\ published' = Bump(published, identity(item))
      /\ PROCESSED_CACHE' = PROCESSED_CACHE \cup {identity(item)}
      /\ \/ \* stmt.run returns (the row is inserted or ignored)
            /\ ~done.threw
            /\ posted' = done.tbl
            /\ UNCHANGED ledgerWriteFailed
            /\ IF MODE = "once"
                 THEN ReturnFromPass(p)
                 ELSE /\ passes' = [passes EXCEPT ![p].pc = "sleep"]
                      /\ UNCHANGED <<proc, cronScheduled>>
         \/ \* stmt.run throws (the storage fails, or the statement raises):
            \* the catch of processOnce ends the pass
            /\ ledgerWriteFailed' = TRUE
            /\ posted' = (IF done.threw THEN done.tbl ELSE posted)
            /\ ReturnFromPass(p)

\* markPosted moved into a `finally`: the row is written although the call
\* rejected.
InsertRejectedButMarked(p) ==
  LET item == CurrentItem(p)
  IN  /\ posted' = markPosted(posted, identity(item), item.link, item.title).tbl
      /\ PROCESSED_CACHE' = PROCESSED_CACHE \cup {identity(item)}
      /\ ReturnFromPass(p)
      /\ UNCHANGED <<published, ledgerWriteFailed>>

\* processOnce without its try/catch: the rejection of blogger.posts.insert
\* leaves processOnce as an unhandled rejection, which ends the process.
InsertRejectedEscapes(p) ==
  /\ passes' = [q \in PassIds |-> IdlePass]
  /\ proc' = "crashed"
  /\ UNCHANGED <<cronScheduled, posted, PROCESSED_CACHE, published, ledgerWriteFailed>>

\* The call rejects: the catch of processOnce ends the pass.
InsertRejected(p) ==
  /\ ReturnFromPass(p)
  /\ UNCHANGED <<posted, PROCESSED_CACHE, published, ledgerWriteFailed>>

\* await blogger.posts.insert(...) settles.
PostInserted(p) ==
  /\ proc = "running"
  /\ passes[p].pc = "posts_insert"
  /\ \/ CommitPublished(p)
     \/ InsertRejected(p)
  /\ UNCHANGED <<config, aux, insertCalls, restarts>>

\* await sleep(2000) settles.
SleepDone(p) ==
  /\ proc = "running"
  /\ passes[p].pc = "sleep"
  /\ Advance(p, PROCESSED_CACHE)
  /\ UNCHANGED <<config, aux, posted, published, insertCalls, ledgerWriteFailed, restarts>>

\* ----------------------------------------------------- part_000: start()
ZeroCount == [id \in Identities |-> 0]

\* No markPosted call has been observed; no filter has been applied.
NoCall == [args |-> <<>>, n |-> 0, before |-> <<>>, mid |-> <<>>, threw |-> FALSE]
NotComputed == [computed |-> FALSE, items |-> <<>>]
\* generateSlug was not called.
NoSlugCall == [title |-> <<>>, slug |-> <<>>, done |-> FALSE]

\* The pass start() awaits, suspended in parser.parseURL.
FirstPass == [q \in PassIds |->
  IF q = 1 THEN [IdlePass EXCEPT !.pc = "parseURL"] ELSE IdlePass]

NoPass == [q \in PassIds |-> IdlePass]

\* The module body up to start(): the credentials check (process.exit(1)) and
\* the creation of the table; then start() calls processOnce.
\* The variables of process.env the basic checks read.
Credentials ==
  {"OPENAI_API_KEY", "CLIENT_ID", "CLIENT_SECRET", "REFRESH_TOKEN", "BLOG_ID",
   "UNSPLASH_ACCESS_KEY"}

\* part_000: if (!OPENAI_API_KEY || !CLIENT_ID || !CLIENT_SECRET ||
\* !REFRESH_TOKEN || !BLOG_ID || !UNSPLASH_ACCESS_KEY) process.exit(1)
basicChecks(e) == Credentials \subseteq e

\* What the module body of part_000 leaves: start() at the first await of
\* processOnce, or the process ended by process.exit(1).
Started(e) ==
  IF basicChecks(e) THEN [proc |-> "running", passes |-> FirstPass]
                    ELSE [proc |-> "exit1", passes |-> NoPass]

Init ==
  /\ MODE \in {"once", "cron"}
  /\ MAX_ITEMS_PER_RUN \in 1..MaxBatch
  /\ env \in SUBSET Credentials
  /\ proc = Started(env).proc
  /\ passes = Started(env).passes
  /\ cronScheduled = FALSE
  /\ posted = <<>>
  /\ PROCESSED_CACHE = {}
  /\ published = ZeroCount
  /\ insertCalls = ZeroCount
  /\ ledgerWriteFailed = FALSE
  /\ restarts = 0
  /\ program = "part_000"
  /\ call = NoCall
  /\ slugCall = NoSlugCall
  /\ rewriterSkipped = {}
  /\ feedItems = <<>>
  /\ candidates = NotComputed

\* cron.schedule called before `await processOnce()`: the trigger fires
\* whether or not the first pass has returned.
CronTickUnregistered(p) ==
  /\ proc = "running"
  /\ ~InProgress(p)
  /\ \A q \in PassIds : q < p => InProgress(q)
  /\ passes' = [passes EXCEPT ![p].pc = "parseURL"]
  /\ UNCHANGED <<config, aux, proc, cronScheduled, posted, PROCESSED_CACHE, published,
                 insertCalls, ledgerWriteFailed, restarts>>

\* The trigger registered by cron.schedule fires: processOnce is called,
\* whether or not an earlier call has returned; it runs up to its first
\* await.
CronTick(p) ==
  /\ proc = "running"
  /\ cronScheduled
  /\ ~InProgress(p)
  /\ \A q \in PassIds : q < p => InProgress(q)
  /\ passes' = [passes EXCEPT ![p].pc = "parseURL"]
  /\ UNCHANGED <<config, aux, proc, cronScheduled, posted, PROCESSED_CACHE, published,
                 insertCalls, ledgerWriteFailed, restarts>>

Next ==
  \/ \E p \in PassIds : FeedFetched(p)
  \/ \E p \in PassIds : ArticleGenerated(p)
  \/ \E p \in PassIds : UnsplashFetched(p)
  \/ \E p \in PassIds : ImageUploaded(p)
  \/ \E p \in PassIds : CategoryClassified(p)
  \/ \E p \in PassIds : PostInserted(p)
  \/ \E p \in PassIds : SleepDone(p)
  \/ \E p \in PassIds : CronTick(p)

\* One process of part_000, from its start to its end.
Spec == Init /\ [][Next]_vars

\* ------------------------------- part_000: successive processes, no overlap
\* The trigger fires while no processOnce is in progress.
TickSeq ==
  /\ \A q \in PassIds : ~InProgress(q)
  /\ CronTick(1)

\* The process has ended (process.exit, or it was stopped between two
\* passes) and is started again with the same DB_PATH: the table is kept,
\* the memory is not.
Restart ==
  /\ restarts < MaxRestarts
  /\ \A q \in PassIds : ~InProgress(q)
  /\ restarts' = restarts + 1
  /\ \E e \in {Credentials, Credentials \ {"REFRESH_TOKEN"}} :
       /\ env' = e
       /\ proc' = Started(e).proc
       /\ passes' = Started(e).passes
  /\ cronScheduled' = FALSE
  /\ PROCESSED_CACHE' = {}
  /\ insertCalls' = ZeroCount
  /\ rewriterSkipped' = {}
  /\ UNCHANGED <<MODE, MAX_ITEMS_PER_RUN, program, call, feedItems, candidates, slugCall,
                 posted, published, ledgerWriteFailed>>

NextSeq ==
  \/ FeedFetched(1)
  \/ ArticleGenerated(1)
  \/ UnsplashFetched(1)
  \/ ImageUploaded(1)
  \/ CategoryClassified(1)
  \/ PostInserted(1)
  \/ SleepDone(1)
  \/ TickSeq
  \/ Restart

\* Processes of part_000 that follow one another on one ledger file, each
\* pass starting after the one before it has returned.
SpecSeq == Init /\ [][NextSeq]_vars


\* ---------------------------------------------------- part_000: properties
\* C1: for every identity, blogger.posts.insert is invoked at most once by
\* one process, over any number of passes, overlapping passes included.
C1_InvokedAtMostOnce == \A id \in Identities : insertCalls[id] <= 1

\* C2: when no pass starts before the pass before it has returned, and no
\* ledger write fails, no identity is published twice, over any sequence of
\* passes of one process or of successive processes on one ledger file.
C2_PublishedAtMostOnce ==
  ~ledgerWriteFailed => \A id \in Identities : published[id] <= 1

\* C3: every row of the ledger belongs to an item whose post creation has
\* returned successfully; no failure before it, and no image upload, leaves
\* a row.
C3_RowsArePublished ==
  \A r \in Rows(posted) :
    /\ published[r.guid] >= 1
    /\ \E it \in Items :
         /\ identity(it) = r.guid
         /\ it.link = r.link
         /\ it.title = r.title

\* A row exists, while for another identity the image was uploaded and the
\* post creation was called and rejected: that identity has no row.
C3_Witness ==
  /\ posted # <<>>
  /\ \E id \in Identities :
       /\ insertCalls[id] = 1
       /\ published[id] = 0
       /\ \A r \in Rows(posted) : r.guid # id
       /\ \A p \in PassIds : ~InProgress(p)

\* C4: in recurring mode no two executions of processOnce are in progress
\* at the same time.
C4_NoTwoPassesInProgress ==
  Cardinality({p \in PassIds : InProgress(p)}) <= 1

\* C7: the ledger is append-only: a step leaves the rows as they are or adds
\* exactly one row after them; no row is updated or deleted.
C7_AppendOnly ==
  [][\/ posted' = posted
     \/ /\ Len(posted') = Len(posted) + 1
        /\ SubSeq(posted', 1, Len(posted)) = posted]_vars

RECURSIVE SumOver(_, _)
SumOver(f, S) ==
  IF S = {} THEN 0
  ELSE LET x == CHOOSE y \in S : TRUE IN f[x] + SumOver(f, S \ {x})

\* Two rows were appended, and a third markPosted met a row with its guid,
\* link or slug and was ignored.
C7_Witness ==
  /\ Len(posted) >= 2
  /\ ~ledgerWriteFailed
  /\ SumOver(published, Identities) > Len(posted)


\* ------------------------------------------- part_000: the ledger by itself
\* The arguments markPosted is called with.
Guids  == Identities
Links  == {it.link : it \in Items}
Titles == {it.title : it \in Items}

\* markPosted({guid, link, title}) is called: PROCESSED_CACHE.add(guid), then
\* stmt.run.  `call` remembers the arguments, how many calls in a row had
\* them (1, or 2 for two and more), the table before the first of these
\* calls, the table before the last, and whether the last threw.
MarkPostedCall(guid, link, title) ==
  LET done == markPosted(posted, guid, link, title)
      args == <<guid, link, title>>
  IN  /\ PROCESSED_CACHE' = PROCESSED_CACHE \cup {guid}
      /\ posted' = done.tbl
      /\ call' = IF call.args = args
                   THEN [call EXCEPT !.n = 2, !.mid = posted, !.threw = done.threw]
                   ELSE [args |-> args, n |-> 1, before |-> posted, mid |-> posted,
                         threw |-> done.threw]
      /\ UNCHANGED <<config, proc, cronScheduled, passes, published, insertCalls,
                     ledgerWriteFailed, restarts, feedItems, candidates, slugCall,
                     rewriterSkipped>>

InitLedger ==
  /\ env = Credentials
  /\ MODE = "cron"
  /\ MAX_ITEMS_PER_RUN = 1
  /\ proc = "running"
  /\ passes = NoPass
  /\ cronScheduled = FALSE
  /\ posted = <<>>
  /\ PROCESSED_CACHE = {}
  /\ published = ZeroCount
  /\ insertCalls = ZeroCount
  /\ ledgerWriteFailed = FALSE
  /\ restarts = 0
  /\ program = "part_000"
  /\ call = NoCall
  /\ slugCall = NoSlugCall
  /\ rewriterSkipped = {}
  /\ feedItems = <<>>
  /\ candidates = NotComputed

NextLedger ==
  \E guid \in Guids, link \in Links, title \in Titles : MarkPostedCall(guid, link, title)

\* Any sequence of markPosted calls on the table of part_000.
SpecLedger == InitLedger /\ [][NextLedger]_vars

\* The rows that hold the guid, the link and the title of the latest call.
RowsOfCall ==
  {r \in Rows(posted) :
     r.guid = call.args[1] /\ r.link = call.args[2] /\ r.title = call.args[3]}

ConflictsOfCall(tbl) ==
  Conflicts(tbl, call.args[1], call.args[2], generateSlug(call.args[3]))

\* C5: a second markPosted with the same guid, link and title changes no row
\* and raises no error; when the first call inserted its row, the ledger
\* holds exactly one row for them after the second.
C5_SecondCallIsNoOp ==
  call.n = 2 =>
    /\ posted = call.mid
    /\ ~call.threw
    /\ Cardinality(RowsOfCall) <= 1
    /\ ConflictsOfCall(call.before) = {} =>
         /\ Cardinality(RowsOfCall) = 1
         /\ Len(posted) = Len(call.before) + 1

\* markPosted was called twice with arguments that met no row of a table
\* that was not empty.
C5_Witness ==
  /\ call.n = 2
  /\ call.before # <<>>
  /\ ConflictsOfCall(call.before) = {}

\* C6: no two rows share a guid, a link or a title slug; a markPosted whose
\* guid, link or slug is in the table already is ignored without an error
\* and leaves the table as it was.
C6_UniqueKeys ==
  /\ \A i, j \in 1..Len(posted) :
       i # j => /\ posted[i].guid # posted[j].guid
                /\ posted[i].link # posted[j].link
                /\ posted[i].title_slug # posted[j].title_slug
  /\ (call.n >= 1 /\ ConflictsOfCall(call.mid) # {}) =>
       (posted = call.mid /\ ~call.threw)

\* The latest call brought a new guid, a new link and another title whose
\* slug a row had already, and the table holds two rows.
C6_Witness ==
  /\ call.n = 1
  /\ Len(posted) = 2
  /\ ConflictsOfCall(call.mid) # {}
  /\ \A r \in ConflictsOfCall(call.mid) :
       r.guid # call.args[1] /\ r.link # call.args[2] /\ r.title # call.args[3]


\* ------------------------------------------- app.js, third program: ledger
\* CREATE TABLE posted of app.js: guid and link are UNIQUE and there is no
\* title_slug column.
NoSlug == <<"NULL">>

NewRow_app(tbl, guid, link, title) ==
  [id |-> MaxId(tbl) + 1, guid |-> guid, link |-> link, title |-> title,
   title_slug |-> NoSlug]

\* SELECT 1 FROM posted WHERE guid = ? OR link = ?   (both bound to id)
hasBeenPosted_app3(tbl, id) == \E r \in Rows(tbl) : r.guid = id \/ r.link = id

\* INSERT OR IGNORE INTO posted (guid, link, title, published_at)
markPosted_app3(tbl, guid, link, title) ==
  IF \E r \in Rows(tbl) : r.guid = guid \/ r.link = link
    THEN [tbl |-> tbl, threw |-> FALSE]
    ELSE [tbl |-> Append(tbl, NewRow_app(tbl, guid, link, title)), threw |-> FALSE]

\* feed.items.filter(item => !hasBeenPosted(guid)).slice(0, MAX_ITEMS_PER_RUN)
itemsToProcess_app3(items, tbl, n) ==
  LET fresh == SelectSeq(items, LAMBDA item : ~hasBeenPosted_app3(tbl, identity(item)))
  IN  SubSeq(fresh, 1, Min(Len(fresh), n))

\* ------------------------------------------------- the candidate filter
\* A feed of ten items with ten guids, links and title slugs.
TenGuids == <<"t01", "t02", "t03", "t04", "t05", "t06", "t07", "t08", "t09", "t10">>

TenItem(k) ==
  [guid |-> TenGuids[k], link |-> "http://f/" \o TenGuids[k],
   title |-> [j \in 1..k |-> "x"], content |-> BodyWithImage]

TenFeed == [k \in 1..10 |-> TenItem(k)]

RECURSIVE MarkAll(_, _, _)
\* The table after markPosted was called, in feed order, for the items of
\* `items` at the indices `idx`.
MarkAll(items, idx, prog) ==
  IF idx = {} THEN <<>>
  ELSE LET k    == CHOOSE i \in idx : \A j \in idx : j <= i
           tbl  == MarkAll(items, idx \ {k}, prog)
           item == items[k]
       IN  IF prog = "part_000"
             THEN markPosted(tbl, identity(item), item.link, item.title).tbl
             ELSE markPosted_app3(tbl, identity(item), item.link, item.title).tbl

\* A feed snapshot, a ledger that holds some of its items (written by
\* earlier passes) and a batch size: the ten-item feed with up to three
\* items per pass, or a short feed (repeated items included) with a cache.
InitFilter ==
  /\ env = Credentials
  /\ program \in {"part_000", "app.js/3"}
  /\ \/ /\ feedItems = TenFeed
        /\ MAX_ITEMS_PER_RUN \in 1..3
        /\ PROCESSED_CACHE = {}
     \/ /\ feedItems \in Feeds \ {<<>>}
        /\ MAX_ITEMS_PER_RUN \in 1..MaxBatch
        /\ PROCESSED_CACHE \in (IF program = "part_000" THEN SUBSET Identities ELSE {{}})
  /\ \E idx \in SUBSET (1..Len(feedItems)) : posted = MarkAll(feedItems, idx, program)
  /\ candidates = NotComputed
  /\ MODE = "cron"
  /\ proc = "running"
  /\ passes = NoPass
  /\ cronScheduled = FALSE
  /\ published = ZeroCount
  /\ insertCalls = ZeroCount
  /\ ledgerWriteFailed = FALSE
  /\ restarts = 0
  /\ call = NoCall
  /\ slugCall = NoSlugCall
  /\ rewriterSkipped = {}

\* The filter with a duplicate check that records what it lets through:
\* the candidates' identities enter the cache while the list is computed.
FilterPart000Recording ==
  /\ program = "part_000"
  /\ ~candidates.computed
  /\ LET its == itemsToProcess(feedItems, PROCESSED_CACHE, posted, MAX_ITEMS_PER_RUN)
     IN  /\ candidates' = [computed |-> TRUE, items |-> its]
         /\ PROCESSED_CACHE' =
              PROCESSED_CACHE \cup {identity(its[k]) : k \in 1..Len(its)}
  /\ UNCHANGED <<config, proc, cronScheduled, posted, passes,
                 published, insertCalls, ledgerWriteFailed, restarts, call, feedItems, slugCall, rewriterSkipped>>

\* The filter of part_000's processOnce is applied to the snapshot.
FilterPart000 ==
  /\ program = "part_000"
  /\ ~candidates.computed
  /\ candidates' = [computed |-> TRUE, items |->
       itemsToProcess(feedItems, PROCESSED_CACHE, posted, MAX_ITEMS_PER_RUN)]
  /\ UNCHANGED <<config, proc, cronScheduled, posted, PROCESSED_CACHE, passes,
                 published, insertCalls, ledgerWriteFailed, restarts, call, feedItems, slugCall, rewriterSkipped>>

\* The filter of the third program of app.js is applied to the snapshot.
FilterApp3 ==
  /\ program = "app.js/3"
  /\ ~candidates.computed
  /\ candidates' = [computed |-> TRUE, items |->
       itemsToProcess_app3(feedItems, posted, MAX_ITEMS_PER_RUN)]
  /\ UNCHANGED <<config, proc, cronScheduled, posted, PROCESSED_CACHE, passes,
                 published, insertCalls, ledgerWriteFailed, restarts, call, feedItems, slugCall, rewriterSkipped>>

NextFilter == FilterPart000 \/ FilterApp3

SpecFilter == InitFilter /\ [][NextFilter]_vars

\* The duplicate check of the running program, on one item.
DuplicateCheck(item) ==
  IF program = "part_000"
    THEN hasBeenPosted(PROCESSED_CACHE, posted, identity(item), item.link, item.title)
    ELSE hasBeenPosted_app3(posted, identity(item))

\* The positions of the snapshot whose item the duplicate check lets through.
FreshIdx == {i \in 1..Len(feedItems) : ~DuplicateCheck(feedItems[i])}

\* The first MAX_ITEMS_PER_RUN of them.
FirstFresh ==
  {i \in FreshIdx : Cardinality({j \in FreshIdx : j < i}) < MAX_ITEMS_PER_RUN}

\* The k-th smallest element of S.
KthOf(S, k) == CHOOSE i \in S : Cardinality({j \in S : j < i}) = k - 1

\* The ledger holds exactly the items 2, 5 and 7 of the ten-item feed.
LedgerHolds257 ==
  /\ feedItems = TenFeed
  /\ {r.guid : r \in Rows(posted)} = {TenGuids[2], TenGuids[5], TenGuids[7]}

\* C8: the candidate list is the first N feed items, in feed order, for
\* which the duplicate check is false; items in the ledger consume no batch
\* slot.  With ten items, items 2, 5 and 7 in the ledger and N = 3, the
\* candidates are items 1, 3 and 4.
C8_FirstNFresh ==
  candidates.computed =>
    /\ Len(candidates.items) = Cardinality(FirstFresh)
    /\ \A k \in 1..Len(candidates.items) :
         candidates.items[k] = feedItems[KthOf(FirstFresh, k)]
    /\ (LedgerHolds257 /\ MAX_ITEMS_PER_RUN = 3) =>
         candidates.items = <<TenItem(1), TenItem(3), TenItem(4)>>

\* part_000 has filtered the ten-item feed with items 2, 5 and 7 in the
\* ledger and N = 3.
C8_Witness ==
  /\ program = "part_000"
  /\ LedgerHolds257
  /\ MAX_ITEMS_PER_RUN = 3
  /\ candidates.computed


\* ------------------ part_001 (first program) and app.js (first program)
\* Both cap the feed first (feed.items.slice(0, MAX_ITEMS_PER_RUN)) and ask
\* hasBeenPosted inside the loop; neither has a PROCESSED_CACHE.
NoImage == ""

\* (content.match(/<img[^>]+src=["']([^"']+)["']/i) || [])[1]: the src of
\* the first <img> that has a src of at least one character.
RECURSIVE imageUrlOf(_)
imageUrlOf(content) ==
  IF content = <<>> THEN NoImage
  ELSE IF Head(content).tag = "img" /\ Head(content).src # ""
       THEN Head(content).src
       ELSE imageUrlOf(Tail(content))

\* The check without its title_slug column: a row with the guid or the link.
hasBeenPosted_p1GuidLink(tbl, guid, link, title) ==
  \E r \in Rows(tbl) : r.guid = guid \/ r.link = link

\* hasBeenPosted of part_001: a row with the guid, the link or the slug.
hasBeenPosted_p1(tbl, guid, link, title) ==
  \E r \in Rows(tbl) :
    r.guid = guid \/ r.link = link \/ r.title_slug = generateSlug(title)

\* markPosted of part_001: INSERT OR IGNORE on the table with three keys.
markPosted_p1(tbl, guid, link, title) == insertOrIgnore(tbl, guid, link, title)

\* hasBeenPosted(id) of app.js: SELECT 1 FROM posted WHERE guid = ? OR link = ?
hasBeenPosted_app1(tbl, id) == \E r \in Rows(tbl) : r.guid = id \/ r.link = id

\* markPosted of app.js: INSERT OR IGNORE INTO posted (guid, link, title, ...)
markPosted_app1(tbl, guid, link, title) ==
  IF \E r \in Rows(tbl) : r.guid = guid \/ r.link = link
    THEN [tbl |-> tbl, threw |-> FALSE]
    ELSE [tbl |-> Append(tbl, NewRow_app(tbl, guid, link, title)), threw |-> FALSE]

\* A pass of these programs: `items` is itemsToProcess and `i` the position
\* of the loop in it; imageUrl, transform (what concealLogoAndResize or
\* overlayLogoOnImage came to), uploadedImageUrl and rewritten are the
\* locals of the loop body.
IdlePass_s ==
  [pc |-> "idle", items |-> <<>>, i |-> 0, imageUrl |-> NoImage,
   transform |-> "none", uploadedImageUrl |-> "none", rewritten |-> "none"]

NoPass_s == [q \in PassIds |-> IdlePass_s]

FirstPass_s == [q \in PassIds |->
  IF q = 1 THEN [IdlePass_s EXCEPT !.pc = "parseURL"] ELSE IdlePass_s]

CurrentItem_s(p) == passes[p].items[passes[p].i]

\* processOnce returns; start() continues when it awaited this pass.
ReturnFromPass_s(p) ==
  /\ passes' = [passes EXCEPT ![p] = IdlePass_s]
  /\ IF ~cronScheduled
       THEN IF MODE = "once"
              THEN proc' = "exit0" /\ UNCHANGED cronScheduled
              ELSE cronScheduled' = TRUE /\ UNCHANGED proc
       ELSE UNCHANGED <<proc, cronScheduled>>

\* The loop body without its `if (!imageUrl) continue`.
ProceedsWithoutImage(item, tbl) ==
  IF program = "part_001/1"
    THEN ~hasBeenPosted_p1(tbl, identity(item), item.link, item.title)
    ELSE ~hasBeenPosted_app1(tbl, identity(item))

\* The loop body reaches its first await with this item: neither of its two
\* `continue` is taken (the item is in the ledger; its body yields no image
\* URL).
Proceeds(item, tbl) ==
  /\ IF program = "part_001/1"
       THEN ~hasBeenPosted_p1(tbl, identity(item), item.link, item.title)
       ELSE ~hasBeenPosted_app1(tbl, identity(item))
  /\ imageUrlOf(item.content) # NoImage

\* The first position from j on whose item the loop body does not skip;
\* Len(its) + 1 when there is none.
RECURSIVE NextPosition(_, _, _)
NextPosition(its, j, tbl) ==
  IF j > Len(its) THEN j
  ELSE IF Proceeds(its[j], tbl) THEN j
  ELSE NextPosition(its, j + 1, tbl)

\* The loop runs from position j to its next await (the image transform of
\* the first item it does not skip) or to its end.
RunLoop_s(p, its, j) ==
  LET k == NextPosition(its, j, posted)
  IN  IF k > Len(its)
        THEN ReturnFromPass_s(p)
        ELSE /\ passes' = [passes EXCEPT ![p] =
                  [IdlePass_s EXCEPT
                     !.pc = IF program = "part_001/1" THEN "concealLogoAndResize"
                                                      ELSE "overlayLogoOnImage",
                     !.items = its, !.i = k,
                     !.imageUrl = imageUrlOf(its[k].content)]]
             /\ UNCHANGED <<proc, cronScheduled>>

\* await parser.parseURL settles; itemsToProcess = feed.items.slice(0, N).
FeedFetched_p1(p) ==
  /\ program = "part_001/1"
  /\ proc = "running"
  /\ passes[p].pc = "parseURL"
  /\ \/ ReturnFromPass_s(p)
     \/ \E items \in Feeds \ {<<>>} :
          RunLoop_s(p, SubSeq(items, 1, Min(Len(items), MAX_ITEMS_PER_RUN)), 1)
  /\ UNCHANGED <<config, aux, posted, PROCESSED_CACHE, published, insertCalls,
                 ledgerWriteFailed, restarts>>

\* The item is skipped when concealLogoAndResize returns null.
AfterConcealSkipping(p, outcome) ==
  IF outcome = "ok"
    THEN /\ passes' = [passes EXCEPT ![p].transform = "ok",
                                     ![p].pc = "uploadImageToBlogger"]
         /\ UNCHANGED <<proc, cronScheduled>>
    ELSE RunLoop_s(p, passes[p].items, passes[p].i + 1)

\* After `await concealLogoAndResize(imageUrl, LOGO_PATH)`: with a buffer the
\* upload is awaited; with null (the download or the processing threw, both
\* caught inside) uploadedImageUrl stays imageUrl and the rewrite is awaited.
AfterConceal(p, outcome) ==
  /\ IF outcome = "ok"
       THEN passes' = [passes EXCEPT ![p].transform = "ok",
                                     ![p].pc = "uploadImageToBlogger"]
       ELSE passes' = [passes EXCEPT ![p].transform = outcome,
                                     ![p].uploadedImageUrl = "original",
                                     ![p].pc = "rewriteWithOpenAI"]
  /\ UNCHANGED <<proc, cronScheduled>>

\* Inside concealLogoAndResize, `await axios.get(originalImageUrl, ...)`
\* settles: with the image bytes the sharp pipeline is awaited; a rejection
\* is caught and the function returns null.
ImageDownloaded_p1(p) ==
  /\ program = "part_001/1"
  /\ proc = "running"
  /\ passes[p].pc = "concealLogoAndResize"
  /\ \/ /\ passes' = [passes EXCEPT ![p].pc = "sharp"]
        /\ UNCHANGED <<proc, cronScheduled>>
     \/ AfterConceal(p, "downloadFailed")
  /\ UNCHANGED <<config, aux, posted, PROCESSED_CACHE, published, insertCalls,
                 ledgerWriteFailed, restarts>>

\* Inside concealLogoAndResize, the sharp pipeline (resize, metadata,
\* concealer, logo, composite) settles: the function returns the final
\* buffer, or null when one of its steps or fs.readFileSync threw.
LogoConcealed_p1(p) ==
  /\ program = "part_001/1"
  /\ proc = "running"
  /\ passes[p].pc = "sharp"
  /\ \E outcome \in {"ok", "transformFailed"} : AfterConceal(p, outcome)
  /\ UNCHANGED <<config, aux, posted, PROCESSED_CACHE, published, insertCalls,
                 ledgerWriteFailed, restarts>>

\* await uploadImageToBlogger settles: media.data.url, or the base64 data
\* URL of its catch.
ImageUploaded_p1(p) ==
  /\ program = "part_001/1"
  /\ proc = "running"
  /\ passes[p].pc = "uploadImageToBlogger"
  /\ \E url \in {"blogger", "dataurl"} :
       passes' = [passes EXCEPT ![p].uploadedImageUrl = url,
                                ![p].pc = "rewriteWithOpenAI"]
  /\ UNCHANGED <<config, aux, proc, cronScheduled, posted, PROCESSED_CACHE, published,
                 insertCalls, ledgerWriteFailed, restarts>>

\* await rewriteWithOpenAI settles: the answer with links and images
\* removed, or (the call threw) the fallback HTML that embeds `content`.
Rewritten_p1(p) ==
  /\ program = "part_001/1"
  /\ proc = "running"
  /\ passes[p].pc = "rewriteWithOpenAI"
  /\ \E html \in {"sanitized", "fallback"} :
       passes' = [passes EXCEPT ![p].rewritten = html, ![p].pc = "generateMeta"]
  /\ UNCHANGED <<config, aux, proc, cronScheduled, posted, PROCESSED_CACHE, published,
                 insertCalls, ledgerWriteFailed, restarts>>

\* await generateMeta settles (its catch returns the fallback meta).
MetaGenerated_p1(p) ==
  /\ program = "part_001/1"
  /\ proc = "running"
  /\ passes[p].pc = "generateMeta"
  /\ passes' = [passes EXCEPT ![p].pc = "generateImageAltAndTitle"]
  /\ UNCHANGED <<config, aux, proc, cronScheduled, posted, PROCESSED_CACHE, published,
                 insertCalls, ledgerWriteFailed, restarts>>

\* await generateImageAltAndTitle settles; finalHtml is built and
\* blogger.posts.insert is called.
AltGenerated_p1(p) ==
  /\ program = "part_001/1"
  /\ proc = "running"
  /\ passes[p].pc = "generateImageAltAndTitle"
  /\ passes' = [passes EXCEPT ![p].pc = "posts_insert"]
  /\ insertCalls' = Bump(insertCalls, identity(CurrentItem_s(p)))
  /\ UNCHANGED <<config, aux, proc, cronScheduled, posted, PROCESSED_CACHE, published,
                 ledgerWriteFailed, restarts>>

\* What follows a settled blogger.posts.insert in both programs: on success
\* markPosted (`done` is what its stmt.run leaves), then the return of
\* MODE=once (`returns`) or the sleep; on a rejection, or when stmt.run
\* throws, the catch of processOnce.
AfterInsert_s(p, done, returns) ==
  \/ /\ published' = Bump(published, identity(CurrentItem_s(p)))
     /\ \/ /\ ~done.threw
           /\ posted' = done.tbl
           /\ UNCHANGED ledgerWriteFailed
           /\ IF returns
                THEN ReturnFromPass_s(p)
                ELSE /\ passes' = [passes EXCEPT ![p] =
                          [IdlePass_s EXCEPT !.pc = "sleep", !.items = passes[p].items,
                                             !.i = passes[p].i]]
                     /\ UNCHANGED <<proc, cronScheduled>>
        \/ /\ ledgerWriteFailed' = TRUE
           /\ posted' = (IF done.threw THEN done.tbl ELSE posted)
           /\ ReturnFromPass_s(p)
  \/ /\ ReturnFromPass_s(p)
     /\ UNCHANGED <<posted, published, ledgerWriteFailed>>

\* await blogger.posts.insert settles (part_001).
PostInserted_p1(p) ==
  /\ program = "part_001/1"
  /\ proc = "running"
  /\ passes[p].pc = "posts_insert"
  /\ LET item == CurrentItem_s(p)
     IN  AfterInsert_s(p, markPosted_p1(posted, identity(item), item.link, item.title),
                       MODE = "once")
  /\ UNCHANGED <<config, aux, PROCESSED_CACHE, insertCalls, restarts>>

\* await new Promise(r => setTimeout(r, 2000)) settles (part_001).
SleepDone_p1(p) ==
  /\ program = "part_001/1"
  /\ proc = "running"
  /\ passes[p].pc = "sleep"
  /\ RunLoop_s(p, passes[p].items, passes[p].i + 1)
  /\ UNCHANGED <<config, aux, posted, PROCESSED_CACHE, published, insertCalls,
                 ledgerWriteFailed, restarts>>

\* ---- app.js, first program
\* await parser.parseURL settles; items = feed.items.slice(0, N).
FeedFetched_app1(p) ==
  /\ program = "app.js/1"
  /\ proc = "running"
  /\ passes[p].pc = "parseURL"
  /\ \/ ReturnFromPass_s(p)
     \/ \E items \in Feeds \ {<<>>} :
          RunLoop_s(p, SubSeq(items, 1, Min(Len(items), MAX_ITEMS_PER_RUN)), 1)
  /\ UNCHANGED <<config, aux, posted, PROCESSED_CACHE, published, insertCalls,
                 ledgerWriteFailed, restarts>>

\* await overlayLogoOnImage settles: the base64 image, or (its catch) the
\* image URL it was given.
LogoOverlaid_app1(p) ==
  /\ program = "app.js/1"
  /\ proc = "running"
  /\ passes[p].pc = "overlayLogoOnImage"
  /\ \/ passes' = [passes EXCEPT ![p].transform = "ok",
                                 ![p].uploadedImageUrl = "base64",
                                 ![p].pc = "rewriteWithOpenAI"]
     \/ passes' = [passes EXCEPT ![p].transform = "failed",
                                 ![p].uploadedImageUrl = "original",
                                 ![p].pc = "rewriteWithOpenAI"]
  /\ UNCHANGED <<config, aux, proc, cronScheduled, posted, PROCESSED_CACHE, published,
                 insertCalls, ledgerWriteFailed, restarts>>

\* await rewriteWithOpenAI settles: the answer, or (its catch) `content`.
Rewritten_app1(p) ==
  /\ program = "app.js/1"
  /\ proc = "running"
  /\ passes[p].pc = "rewriteWithOpenAI"
  /\ \E html \in {"rewritten", "content"} :
       passes' = [passes EXCEPT ![p].rewritten = html, ![p].pc = "generateMeta"]
  /\ UNCHANGED <<config, aux, proc, cronScheduled, posted, PROCESSED_CACHE, published,
                 insertCalls, ledgerWriteFailed, restarts>>

\* await generateMeta settles; finalHtml is built and blogger.posts.insert
\* is called.
MetaGenerated_app1(p) ==
  /\ program = "app.js/1"
  /\ proc = "running"
  /\ passes[p].pc = "generateMeta"
  /\ passes' = [passes EXCEPT ![p].pc = "posts_insert"]
  /\ insertCalls' = Bump(insertCalls, identity(CurrentItem_s(p)))
  /\ UNCHANGED <<config, aux, proc, cronScheduled, posted, PROCESSED_CACHE, published,
                 ledgerWriteFailed, restarts>>

\* await blogger.posts.insert settles (app.js): the loop has no MODE=once
\* return.
PostInserted_app1(p) ==
  /\ program = "app.js/1"
  /\ proc = "running"
  /\ passes[p].pc = "posts_insert"
  /\ LET item == CurrentItem_s(p)
     IN  AfterInsert_s(p, markPosted_app1(posted, identity(item), item.link, item.title),
                       FALSE)
  /\ UNCHANGED <<config, aux, PROCESSED_CACHE, insertCalls, restarts>>

\* await new Promise(r => setTimeout(r, 2000)) settles (app.js).
SleepDone_app1(p) ==
  /\ program = "app.js/1"
  /\ proc = "running"
  /\ passes[p].pc = "sleep"
  /\ RunLoop_s(p, passes[p].items, passes[p].i + 1)
  /\ UNCHANGED <<config, aux, posted, PROCESSED_CACHE, published, insertCalls,
                 ledgerWriteFailed, restarts>>

\* The module body up to start() and the first await of processOnce, in
\* either program.
InitSlice ==
  /\ program \in {"part_001/1", "app.js/1"}
  /\ MODE \in {"once", "cron"}
  /\ MAX_ITEMS_PER_RUN \in 1..MaxBatch
  /\ \/ proc = "running" /\ passes = FirstPass_s /\ env = Credentials
     \/ proc = "exit1" /\ passes = NoPass_s /\ env = {}
  /\ cronScheduled = FALSE
  /\ posted = <<>>
  /\ PROCESSED_CACHE = {}
  /\ published = ZeroCount
  /\ insertCalls = ZeroCount
  /\ ledgerWriteFailed = FALSE
  /\ restarts = 0
  /\ call = NoCall
  /\ slugCall = NoSlugCall
  /\ rewriterSkipped = {}
  /\ feedItems = <<>>
  /\ candidates = NotComputed

\* The trigger registered by cron.schedule fires (first programs).
CronTick_s(p) ==
  /\ \A id \in Identities : insertCalls[id] < MaxInsertCalls
  /\ CronTick(p)

NextSlice ==
  \/ \E p \in PassIds : FeedFetched_p1(p)
  \/ \E p \in PassIds : ImageDownloaded_p1(p)
  \/ \E p \in PassIds : LogoConcealed_p1(p)
  \/ \E p \in PassIds : ImageUploaded_p1(p)
  \/ \E p \in PassIds : Rewritten_p1(p)
  \/ \E p \in PassIds : MetaGenerated_p1(p)
  \/ \E p \in PassIds : AltGenerated_p1(p)
  \/ \E p \in PassIds : PostInserted_p1(p)
  \/ \E p \in PassIds : SleepDone_p1(p)
  \/ \E p \in PassIds : FeedFetched_app1(p)
  \/ \E p \in PassIds : LogoOverlaid_app1(p)
  \/ \E p \in PassIds : Rewritten_app1(p)
  \/ \E p \in PassIds : MetaGenerated_app1(p)
  \/ \E p \in PassIds : PostInserted_app1(p)
  \/ \E p \in PassIds : SleepDone_app1(p)
  \/ \E p \in PassIds : CronTick_s(p)

\* One process of the first program of part_001, or of app.js.
SpecSlice == InitSlice /\ [][NextSlice]_vars

\* ------------------------------------------ first programs: properties
WithoutImage == {it \in Items : imageUrlOf(it.content) = NoImage}

\* The stages of a pass that hold an item: every stage but the feed fetch.
HoldsItem(p) == InProgress(p) /\ passes[p].pc # "parseURL"

\* C9: in the first program of part_001 and in the first program of
\* app.js, an item whose body yields no <img> src is never the item of an
\* image transform, a rewrite or a blogger.posts.insert call, is never
\* published, and no ledger row carries its guid or link.
C9_NoImageNeverProcessed ==
  /\ \A p \in PassIds :
       HoldsItem(p) => /\ CurrentItem_s(p) \notin WithoutImage
                       /\ passes[p].pc # "sleep" => passes[p].imageUrl # NoImage
  /\ \A it \in WithoutImage :
       /\ insertCalls[identity(it)] = 0
       /\ published[identity(it)] = 0
       /\ \A r \in Rows(posted) : r.guid # identity(it) /\ r.link # it.link

\* A pass whose first item had no image went past it and published its
\* second item.
C9_Witness ==
  \E p \in PassIds :
    /\ passes[p].pc = "sleep"
    /\ passes[p].i = 2
    /\ passes[p].items[1] \in WithoutImage
    /\ published[identity(passes[p].items[2])] = 1
    /\ posted # <<>>

\* The order of the awaits that follow a null from concealLogoAndResize.
StageAfter(pc) ==
  CASE pc = "rewriteWithOpenAI" -> "generateMeta"
    [] pc = "generateMeta" -> "generateImageAltAndTitle"
    [] pc = "generateImageAltAndTitle" -> "posts_insert"
    [] OTHER -> "none"

SameItem(p) ==
  /\ passes'[p].items = passes[p].items
  /\ passes'[p].i = passes[p].i

\* C10: in the first program of part_001, when the sharp pipeline of
\* concealLogoAndResize fails after axios.get delivered the image, the pass
\* keeps the item: it awaits the rewrite with uploadedImageUrl equal to the
\* feed's image URL, then each later stage in turn for the same item with
\* that URL, up to the blogger.posts.insert call.
C10_TransformFailureContinues ==
  [][ program = "part_001/1" =>
      \A p \in PassIds :
        /\ (passes[p].pc = "sharp" /\ passes'[p] # passes[p]) =>
              /\ SameItem(p)
              /\ \/ passes'[p].pc = "uploadImageToBlogger" /\ passes'[p].transform = "ok"
                 \/ /\ passes'[p].pc = "rewriteWithOpenAI"
                    /\ passes'[p].transform = "transformFailed"
                    /\ passes'[p].uploadedImageUrl = "original"
        /\ (passes[p].transform = "transformFailed" /\ passes'[p] # passes[p]
            /\ passes[p].pc # "posts_insert") =>
              /\ SameItem(p)
              /\ passes'[p].pc = StageAfter(passes[p].pc)
              /\ passes'[p].transform = "transformFailed"
              /\ passes'[p].uploadedImageUrl = "original"
              /\ passes'[p].pc = "posts_insert" =>
                   insertCalls'[identity(CurrentItem_s(p))] =
                     insertCalls[identity(CurrentItem_s(p))] + 1
    ]_vars

\* blogger.posts.insert was called, and the post published, for an item
\* whose transform had failed; the pass holds the original image URL.
C10_Witness ==
  /\ program = "part_001/1"
  /\ \E p \in PassIds :
       /\ passes[p].pc = "posts_insert"
       /\ passes[p].transform = "transformFailed"
       /\ passes[p].uploadedImageUrl = "original"
       /\ insertCalls[identity(CurrentItem_s(p))] = 1

\* C11: in the first program of part_001, when the download of the image
\* inside concealLogoAndResize fails, the item is skipped: no pass awaits
\* the rewrite, the meta data or blogger.posts.insert for an item whose
\* download failed.
C11_DownloadFailureSkips ==
  program = "part_001/1" =>
    \A p \in PassIds :
      passes[p].transform = "downloadFailed" =>
        passes[p].pc \notin {"rewriteWithOpenAI", "generateMeta",
                             "generateImageAltAndTitle", "posts_insert"}

\* ------------------------------------- part_000: failures inside a pass
\* The stages of a part_000 pass that follow the rewriter and read
\* articleData.
AfterRewriter == {"fetchUnsplashImage", "uploadExternalImageToBlogger", "classifyCategory"}

\* C12: in part_000, when generateArticleAndMetadata fails or returns no
\* article body, the item is skipped: a pass is at a stage after the
\* rewriter only with an article body, blogger.posts.insert is called for
\* an identity only by a pass that holds a complete article for it, and an
\* identity it was never called for is neither published nor in the ledger.
C12_RewriterFailureSkips ==
  /\ [](/\ \A p \in PassIds :
             passes[p].pc \in AfterRewriter => passes[p].articleData \in {"full", "partial"}
        /\ \A id \in Identities :
             insertCalls[id] = 0 =>
               /\ published[id] = 0
               /\ \A r \in Rows(posted) : r.guid # id)
  /\ [][\A id \in Identities :
          insertCalls'[id] > insertCalls[id] =>
            \E p \in PassIds :
              /\ passes[p].pc = "classifyCategory"
              /\ passes[p].articleData = "full"
              /\ identity(CurrentItem(p)) = id]_vars

\* The startup pass went past its first candidate at the rewriter, without
\* a call of blogger.posts.insert and without a row, and is at the rewriter
\* with its second candidate.
C12_Witness ==
  /\ ~cronScheduled
  /\ passes[1].pc = "generateArticleAndMetadata"
  /\ Len(passes[1].items) = 1
  /\ \E id \in PROCESSED_CACHE :
       /\ id # identity(CurrentItem(1))
       /\ insertCalls[id] = 0
       /\ published[id] = 0
       /\ \A r \in Rows(posted) : r.guid # id

\* C13: in part_000 with at least two candidates left in the batch, a
\* failure at any stage of one candidate is local to it: a step of the pass
\* that publishes nothing leaves the pass in progress, at a later stage of
\* the same candidate or at the rewriter with the next candidate.
C13_FailureIsLocal ==
  [][\A p \in PassIds :
       (/\ passes[p].pc \notin {"idle", "parseURL"}
        /\ Len(passes[p].items) >= 2
        /\ passes'[p] # passes[p]
        /\ published' = published) =>
          \/ /\ passes'[p].items = passes[p].items
             /\ passes'[p].pc # "idle"
          \/ /\ passes'[p].items = Tail(passes[p].items)
             /\ passes'[p].pc = "generateArticleAndMetadata"]_vars

\* C14: in recurring mode of part_000 no exception inside a pass ends the
\* process or the schedule: a process that passed the startup checks keeps
\* running, the trigger is registered as soon as the startup pass is over
\* and stays registered, and whenever it is registered and a slot is free
\* the trigger can start a pass.
C14_ExceptionsNeverStopProcess ==
  /\ []((MODE = "cron" /\ proc # "exit1") =>
          /\ proc = "running"
          /\ cronScheduled \/ InProgress(1)
          /\ (cronScheduled /\ \E p \in PassIds : ~InProgress(p)) =>
               ENABLED (\E p \in PassIds : CronTick(p)))
  /\ [][MODE = "cron" => /\ proc' = proc
                         /\ cronScheduled => cronScheduled']_vars

\* After a pass in which markPosted threw, and one in which
\* blogger.posts.insert rejected, the trigger has started another pass.
C14_Witness ==
  /\ MODE = "cron"
  /\ proc = "running"
  /\ cronScheduled
  /\ ledgerWriteFailed
  /\ \E id \in Identities : insertCalls[id] >= 1 /\ published[id] = 0
  /\ passes[1].pc = "parseURL"
  /\ \A q \in PassIds : q # 1 => ~InProgress(q)

\* ------------------------------------------- part_001 (second program)
\* hasBeenPosted(g): SELECT 1 FROM posted WHERE guid=? OR link=?
hasBeenPosted_p2(tbl, g) == \E r \in Rows(tbl) : r.guid = g \/ r.link = g

\* markPosted(d): INSERT OR IGNORE on the table with UNIQUE guid and link.
markPosted_p2(tbl, guid, link, title) ==
  IF \E r \in Rows(tbl) : r.guid = guid \/ r.link = link
    THEN [tbl |-> tbl, threw |-> FALSE]
    ELSE [tbl |-> Append(tbl, NewRow_app(tbl, guid, link, title)), threw |-> FALSE]

\* if (hasBeenPosted(guid) || hasBeenPosted(link)) continue;
Fresh_p2(item, tbl) ==
  ~(hasBeenPosted_p2(tbl, identity(item)) \/ hasBeenPosted_p2(tbl, item.link))

RECURSIVE NextPosition_p2(_, _, _)
NextPosition_p2(its, j, tbl) ==
  IF j > Len(its) THEN j
  ELSE IF Fresh_p2(its[j], tbl) THEN j
  ELSE NextPosition_p2(its, j + 1, tbl)

\* processOnce returns; the async function at the end of the module goes
\* on when it awaited this pass: in once mode nothing is left to run and
\* the process ends with code 0, otherwise cron.schedule is called.
ReturnFromPass_p2(p) ==
  /\ passes' = [passes EXCEPT ![p] = IdlePass_s]
  /\ IF ~cronScheduled
       THEN IF MODE = "once"
              THEN proc' = "exit0" /\ UNCHANGED cronScheduled
              ELSE cronScheduled' = TRUE /\ UNCHANGED proc
       ELSE UNCHANGED <<proc, cronScheduled>>

\* An exception leaves processOnce, which has no try/catch around its
\* awaits: the promise rejects and nothing handles it.  The runtime ends
\* the process on the unhandled rejection, or only warns; in that case the
\* startup function never reaches cron.schedule and the process ends, and
\* a pass started by the trigger is just lost.
Escapes_p2(p) ==
  \/ /\ proc' = "crashed"
     /\ passes' = NoPass_s
     /\ UNCHANGED cronScheduled
  \/ /\ passes' = [passes EXCEPT ![p] = IdlePass_s]
     /\ proc' = (IF cronScheduled THEN proc ELSE "exit0")
     /\ UNCHANGED cronScheduled

\* The loop runs from position j to its next await (fetchPage for the first
\* item that is not in the table) or to its end.
RunLoop_p2(p, its, j) ==
  LET k == NextPosition_p2(its, j, posted)
  IN  IF k > Len(its)
        THEN ReturnFromPass_p2(p)
        ELSE /\ passes' = [passes EXCEPT ![p] =
                  [IdlePass_s EXCEPT !.pc = "fetchPage", !.items = its, !.i = k]]
             /\ UNCHANGED <<proc, cronScheduled>>

\* finalHtml is built and createBloggerPost is called for the current item;
\* the locals that went into finalHtml are not read after the call.
CallCreatePost_p2(p) ==
  /\ passes' = [passes EXCEPT ![p] =
        [IdlePass_s EXCEPT !.pc = "createBloggerPost", !.items = passes[p].items,
                           !.i = passes[p].i]]
  /\ insertCalls' = Bump(insertCalls, identity(CurrentItem_s(p)))
  /\ UNCHANGED <<proc, cronScheduled>>

\* await parser.parseURL settles; a rejection is not caught.
FeedFetched_p2(p) ==
  /\ program = "part_001/2"
  /\ proc = "running"
  /\ passes[p].pc = "parseURL"
  /\ \/ Escapes_p2(p)
     \/ ReturnFromPass_p2(p)
     \/ \E items \in Feeds \ {<<>>} :
          RunLoop_p2(p, SubSeq(items, 1, Min(Len(items), MAX_ITEMS_PER_RUN)), 1)
  /\ UNCHANGED <<config, aux, posted, PROCESSED_CACHE, published, insertCalls,
                 ledgerWriteFailed, restarts>>

\* await fetchPage(link) settles (null on failure); imageUrl is the page's
\* og:image or first image, else the first image of the content, which is
\* the page's article block when it has one.
PageFetched_p2(p) ==
  /\ program = "part_001/2"
  /\ proc = "running"
  /\ passes[p].pc = "fetchPage"
  /\ \E url \in {"http://page/og.jpg", imageUrlOf(CurrentItem_s(p).content), NoImage} :
       passes' = [passes EXCEPT ![p].imageUrl = url, ![p].pc = "generateMetaSEO"]
  /\ UNCHANGED <<config, aux, proc, cronScheduled, posted, PROCESSED_CACHE, published,
                 insertCalls, ledgerWriteFailed, restarts>>

\* await generateMetaSEO settles; it has no try/catch.
MetaSEOGenerated_p2(p) ==
  /\ program = "part_001/2"
  /\ proc = "running"
  /\ passes[p].pc = "generateMetaSEO"
  /\ \/ /\ passes' = [passes EXCEPT ![p].pc = "rewriteWithOpenAI"]
        /\ UNCHANGED <<proc, cronScheduled>>
     \/ Escapes_p2(p)
  /\ UNCHANGED <<config, aux, posted, PROCESSED_CACHE, published, insertCalls,
                 ledgerWriteFailed, restarts>>

\* openai.chat.completions.create rejects inside rewriteWithOpenAI: neither
\* the function nor processOnce catches it.
RewriteThrew_p2(p) ==
  /\ Escapes_p2(p)
  /\ UNCHANGED insertCalls

\* await rewriteWithOpenAI settles: the HTML, and the image meta
\* data is awaited when there is an image, else createBloggerPost is called.
Rewritten_p2(p) ==
  /\ program = "part_001/2"
  /\ proc = "running"
  /\ passes[p].pc = "rewriteWithOpenAI"
  /\ \/ IF passes[p].imageUrl # NoImage
          THEN /\ passes' = [passes EXCEPT ![p].rewritten = "html",
                                           ![p].pc = "generateImageMeta"]
               /\ UNCHANGED <<proc, cronScheduled, insertCalls>>
          ELSE CallCreatePost_p2(p)
     \/ RewriteThrew_p2(p)
  /\ UNCHANGED <<config, aux, posted, PROCESSED_CACHE, published,
                 ledgerWriteFailed, restarts>>

\* await generateImageMeta settles (no try/catch); the logo is uploaded
\* when fs.existsSync(CUSTOM_LOGO_PATH), else createBloggerPost is called.
ImageMetaGenerated_p2(p) ==
  /\ program = "part_001/2"
  /\ proc = "running"
  /\ passes[p].pc = "generateImageMeta"
  /\ \/ /\ passes' = [passes EXCEPT ![p].pc = "uploadImageToBlogger"]
        /\ UNCHANGED <<proc, cronScheduled, insertCalls>>
     \/ CallCreatePost_p2(p)
     \/ Escapes_p2(p) /\ UNCHANGED insertCalls
  /\ UNCHANGED <<config, aux, posted, PROCESSED_CACHE, published,
                 ledgerWriteFailed, restarts>>

\* await uploadImageToBlogger settles (the URL, or null from its catch: the
\* image URL is used); createBloggerPost is called.
LogoUploaded_p2(p) ==
  /\ program = "part_001/2"
  /\ proc = "running"
  /\ passes[p].pc = "uploadImageToBlogger"
  /\ CallCreatePost_p2(p)
  /\ UNCHANGED <<config, aux, posted, PROCESSED_CACHE, published,
                 ledgerWriteFailed, restarts>>

\* await createBloggerPost settles, inside try/catch: on success markPosted
\* and the sleep; a rejection, or a throw of markPosted, is logged and the
\* loop goes on with the next item.
PostCreated_p2(p) ==
  /\ program = "part_001/2"
  /\ proc = "running"
  /\ passes[p].pc = "createBloggerPost"
  /\ LET item == CurrentItem_s(p)
         done == markPosted_p2(posted, identity(item), item.link, item.title)
     IN  \/ /\ published' = Bump(published, identity(item))
            /\ posted' = done.tbl
            /\ UNCHANGED ledgerWriteFailed
            /\ passes' = [passes EXCEPT ![p] =
                  [IdlePass_s EXCEPT !.pc = "sleep", !.items = passes[p].items,
                                     !.i = passes[p].i]]
            /\ UNCHANGED <<proc, cronScheduled>>
         \/ /\ published' = Bump(published, identity(item))
            /\ ledgerWriteFailed' = TRUE
            /\ UNCHANGED posted
            /\ RunLoop_p2(p, passes[p].items, passes[p].i + 1)
         \/ /\ UNCHANGED <<posted, published, ledgerWriteFailed>>
            /\ RunLoop_p2(p, passes[p].items, passes[p].i + 1)
  /\ UNCHANGED <<config, aux, PROCESSED_CACHE, insertCalls, restarts>>

\* await sleep(2000) settles; if (MODE === 'once') return.
SleepDone_p2(p) ==
  /\ program = "part_001/2"
  /\ proc = "running"
  /\ passes[p].pc = "sleep"
  /\ IF MODE = "once"
       THEN ReturnFromPass_p2(p)
       ELSE RunLoop_p2(p, passes[p].items, passes[p].i + 1)
  /\ UNCHANGED <<config, aux, posted, PROCESSED_CACHE, published, insertCalls,
                 ledgerWriteFailed, restarts>>

\* The module body up to the first await of processOnce; a missing
\* credential throws at module level.
InitLite ==
  /\ program = "part_001/2"
  /\ MODE \in {"once", "cron"}
  /\ MAX_ITEMS_PER_RUN \in 1..MaxBatch
  /\ \/ proc = "running" /\ passes = FirstPass_s /\ env = Credentials
     \/ proc = "exit1" /\ passes = NoPass_s /\ env = {}
  /\ cronScheduled = FALSE
  /\ posted = <<>>
  /\ PROCESSED_CACHE = {}
  /\ published = ZeroCount
  /\ insertCalls = ZeroCount
  /\ ledgerWriteFailed = FALSE
  /\ restarts = 0
  /\ call = NoCall
  /\ slugCall = NoSlugCall
  /\ rewriterSkipped = {}
  /\ feedItems = <<>>
  /\ candidates = NotComputed

\* The trigger fires while no processOnce is in progress.
TickSeq_p2 ==
  /\ \A q \in PassIds : ~InProgress(q)
  /\ CronTick_s(1)

NextLite ==
  \/ \E p \in PassIds : FeedFetched_p2(p)
  \/ \E p \in PassIds : PageFetched_p2(p)
  \/ \E p \in PassIds : MetaSEOGenerated_p2(p)
  \/ \E p \in PassIds : Rewritten_p2(p)
  \/ \E p \in PassIds : ImageMetaGenerated_p2(p)
  \/ \E p \in PassIds : LogoUploaded_p2(p)
  \/ \E p \in PassIds : PostCreated_p2(p)
  \/ \E p \in PassIds : SleepDone_p2(p)
  \/ TickSeq_p2

\* One process of the second program of part_001, its passes one after
\* the other.
SpecLite == InitLite /\ [][NextLite]_vars

\* C15: in the second program of part_001 an exception of the rewriter does
\* not leave processOnce: the step in which `await rewriteWithOpenAI`
\* settles never ends the process, and while a later candidate of the batch
\* is not in the ledger it leaves the pass in progress.
C15_RewriterExceptionIsLocal ==
  [][\A p \in PassIds :
       (passes[p].pc = "rewriteWithOpenAI" /\ passes'[p] # passes[p]) =>
          /\ proc' = "running"
          /\ (\E j \in (passes[p].i + 1)..Len(passes[p].items) :
                Fresh_p2(passes[p].items[j], posted)) => passes'[p].pc # "idle"]_vars

\* ----------------------------------------------- part_000: once and cron
\* In once mode at most one item is published, and once a row is written
\* the pass and the process are over.
OnceStopsAtFirstCommit ==
  MODE = "once" =>
    /\ SumOver(published, Identities) <= 1
    /\ Len(posted) <= 1
    /\ posted # <<>> => /\ \A p \in PassIds : ~InProgress(p)
                        /\ proc = "exit0"

\* C16: in once mode of part_000 the pass stops right after the first item
\* that is committed, so at most one item is published and committed; an
\* item that is skipped does not stop the pass: a step that publishes
\* nothing while at least two candidates are left keeps the pass in
\* progress, with the same candidate or at the rewriter with the next.
C16_OnceStopsAfterFirstCommit ==
  /\ []OnceStopsAtFirstCommit
  /\ [][MODE = "once" =>
          \A p \in PassIds :
            (/\ passes[p].pc \notin {"idle", "parseURL"}
             /\ Len(passes[p].items) >= 2
             /\ passes'[p] # passes[p]
             /\ published' = published) =>
               \/ passes'[p].items = passes[p].items /\ passes'[p].pc # "idle"
               \/ /\ passes'[p].items = Tail(passes[p].items)
                  /\ passes'[p].pc = "generateArticleAndMetadata"]_vars

\* C17: in recurring mode start() runs one pass at once and registers the
\* trigger only when that pass has returned: until then the startup pass
\* is the only pass in progress; the registration happens in the step in
\* which it returns; and a pass starts only by a trigger that is
\* registered, one pass per trigger, at its feed fetch.
C17_TriggerAfterFirstPass ==
  /\ []((MODE = "cron" /\ proc = "running" /\ ~cronScheduled) =>
          /\ InProgress(1)
          /\ \A q \in PassIds : q # 1 => ~InProgress(q))
  /\ [][MODE = "cron" =>
          /\ (~cronScheduled /\ cronScheduled') =>
               InProgress(1) /\ passes'[1].pc = "idle"
          /\ \A p \in PassIds :
               (~InProgress(p) /\ passes'[p].pc # "idle") =>
                  /\ cronScheduled
                  /\ passes'[p].pc = "parseURL"
                  /\ \A q \in PassIds : q # p => passes'[q] = passes[q]]_vars

\* The startup pass has published an item and returned, the trigger is
\* registered, and two triggers have each started a pass.
C17_Witness ==
  /\ MODE = "cron"
  /\ cronScheduled
  /\ posted # <<>>
  /\ \A p \in PassIds : InProgress(p)

\* C18: in once mode start() runs exactly one pass, never registers a
\* trigger, and ends the process with code 0 when that pass returns,
\* whatever became of its items: only the startup pass is ever in
\* progress, no pass starts later, and the process changes state only from
\* running to exit 0, in the step in which the startup pass returns.
C18_OnceExitsZero ==
  /\ [](MODE = "once" =>
          /\ ~cronScheduled
          /\ \A q \in PassIds : q # 1 => ~InProgress(q)
          /\ proc \in {"running", "exit0", "exit1"}
          /\ proc = "running" <=> InProgress(1))
  /\ [][MODE = "once" =>
          /\ \A p \in PassIds : ~InProgress(p) => passes'[p].pc = "idle"
          /\ proc' # proc =>
               /\ proc = "running" /\ proc' = "exit0"
               /\ InProgress(1) /\ passes'[1].pc = "idle"]_vars

\* The process has exited with code 0 after a pass that skipped its first
\* candidate at the rewriter and committed its second.
C18_Witness ==
  /\ MODE = "once"
  /\ proc = "exit0"
  /\ Len(posted) = 1
  /\ \E id \in PROCESSED_CACHE : insertCalls[id] = 0 /\ published[id] = 0

\* ------------------------------------------------- the startup checks
\* app.js, second program: only a missing OPENAI_API_KEY ends the process;
\* missing Blogger OAuth settings and a missing Unsplash key are logged.
basicChecks_app2(e) == "OPENAI_API_KEY" \in e

\* The module body runs its basic checks and, when they pass, goes on to
\* start(), which calls processOnce.
BasicChecks ==
  /\ proc = "starting"
  /\ LET ok == IF program = "part_000" THEN basicChecks(env) ELSE basicChecks_app2(env)
     IN  IF ok THEN proc' = "running" /\ passes' = FirstPass
               ELSE proc' = "exit1" /\ passes' = NoPass
  /\ UNCHANGED <<config, aux, cronScheduled, posted, PROCESSED_CACHE, published,
                 insertCalls, ledgerWriteFailed, restarts>>

\* A process of part_000, or of the second program of app.js, before its
\* basic checks, with any subset of the credentials set.
InitStartup ==
  /\ program \in {"part_000", "app.js/2"}
  /\ env \in SUBSET Credentials
  /\ MODE \in {"once", "cron"}
  /\ MAX_ITEMS_PER_RUN \in 1..MaxBatch
  /\ proc = "starting"
  /\ passes = NoPass
  /\ cronScheduled = FALSE
  /\ posted = <<>>
  /\ PROCESSED_CACHE = {}
  /\ published = ZeroCount
  /\ insertCalls = ZeroCount
  /\ ledgerWriteFailed = FALSE
  /\ restarts = 0
  /\ call = NoCall
  /\ slugCall = NoSlugCall
  /\ rewriterSkipped = {}
  /\ feedItems = <<>>
  /\ candidates = NotComputed

NextStartup == BasicChecks

SpecStartup == InitStartup /\ [][NextStartup]_vars

\* The credentials the publisher and the text API need.
Required == {"OPENAI_API_KEY", "CLIENT_ID", "CLIENT_SECRET", "REFRESH_TOKEN", "BLOG_ID"}

\* C19: in part_000 and in the second program of app.js, when a required
\* credential is missing the process has exited with code 1 once the
\* startup checks are over: no pass is in progress and no trigger is
\* registered.
C19_MissingCredentialExits ==
  (proc # "starting" /\ ~(Required \subseteq env)) =>
    /\ proc = "exit1"
    /\ \A p \in PassIds : ~InProgress(p)
    /\ ~cronScheduled

\* An identity this process published while the table holds no row with
\* its guid, after a stmt.run of markPosted threw.
Orphaned(id) ==
  /\ ledgerWriteFailed
  /\ published[id] >= 1
  /\ \A r \in Rows(posted) : r.guid # id

\* C20: in part_000 an item whose ledger write failed after its post was
\* created is not retried by the running process: no pass whose filter
\* runs afterwards takes an orphaned identity as a candidate, so none
\* calls blogger.posts.insert for it again.
C20_OrphanNotRetried ==
  [][\A p \in PassIds :
       passes[p].pc = "parseURL" =>
         \A k \in 1..Len(passes'[p].items) :
           ~Orphaned(identity(passes'[p].items[k]))]_vars

\* An identity is orphaned, blogger.posts.insert was called for it once,
\* and the only pass in progress, started by the trigger, has passed its
\* filter and works on another item.
C20_Witness ==
  /\ cronScheduled
  /\ passes[1].pc = "generateArticleAndMetadata"
  /\ \A q \in PassIds : q # 1 => ~InProgress(q)
  /\ \E id \in Identities :
       /\ Orphaned(id)
       /\ insertCalls[id] = 1
       /\ identity(CurrentItem(1)) # id

\* ------------------------------------------- part_000: the dedup cache
\* C21: in part_000 PROCESSED_CACHE is empty at process start (while the
\* startup pass still awaits its feed), holds the identity of an item from
\* the moment the loop takes it, before the rewriter, the image calls or
\* the publisher are called for it, and never loses an identity.
C21_CacheOnlyGrows ==
  /\ []((~cronScheduled /\ \A p \in PassIds : passes[p].pc \in {"idle", "parseURL"}
                        /\ proc # "exit0") => PROCESSED_CACHE = {})
  /\ [](\A p \in PassIds :
          passes[p].pc \notin {"idle", "parseURL"} =>
            identity(CurrentItem(p)) \in PROCESSED_CACHE)
  /\ [][PROCESSED_CACHE \subseteq PROCESSED_CACHE']_vars

\* Over several passes the cache has come to hold every identity, one of
\* them of an item that was never published and is no longer processed.
C21_Witness ==
  /\ cronScheduled
  /\ PROCESSED_CACHE = Identities
  /\ \E id \in Identities : published[id] = 0
  /\ \A p \in PassIds : ~InProgress(p)

\* C22: computing the candidate list of part_000 (the filter with
\* hasBeenPosted, then the cap) changes neither the ledger nor the cache.
C22_FilterIsReadOnly ==
  [][(program = "part_000" /\ ~candidates.computed /\ candidates'.computed) =>
       /\ posted' = posted
       /\ PROCESSED_CACHE' = PROCESSED_CACHE]_vars

\* part_000 has computed a non-empty candidate list from a feed of which
\* the ledger and the cache hold an item each.
C22_Witness ==
  /\ program = "part_000"
  /\ candidates.computed
  /\ candidates.items # <<>>
  /\ posted # <<>>
  /\ PROCESSED_CACHE # {}
  /\ \E i \in 1..Len(feedItems) : DuplicateCheck(feedItems[i])

\* ------------------------------------------- part_000: one item, two passes
\* With batch size 1 the only item the process ever took from a feed is
\* `it`, and its pass published it and wrote the ledger without an error.
OnlyItemCommitted(it) ==
  /\ MAX_ITEMS_PER_RUN = 1
  /\ PROCESSED_CACHE = {identity(it)}
  /\ published[identity(it)] = 1
  /\ ~ledgerWriteFailed

\* The PostRecord markPosted writes for `it` into an empty ledger.
PostRecordOf(it) ==
  [id |-> 1, guid |-> identity(it), link |-> it.link, title |-> it.title,
   title_slug |-> generateSlug(it.title)]

\* C23: from an empty ledger, with batch size 1 and a feed holding one new
\* item, a pass whose external calls all succeed leaves exactly one
\* PostRecord, with the item's guid (its link when it has none) and the slug
\* of its title; the Publisher was called once; a later pass over the same
\* feed computes an empty candidate list and calls the Publisher no more.
C23_OnePassThenNothing ==
  /\ [](\A it \in Items : OnlyItemCommitted(it) =>
          /\ posted = <<PostRecordOf(it)>>
          /\ insertCalls[identity(it)] = 1
          /\ itemsToProcess(<<it>>, PROCESSED_CACHE, posted, MAX_ITEMS_PER_RUN) = <<>>
          /\ itemsToProcess(<<it>>, {}, posted, MAX_ITEMS_PER_RUN) = <<>>)
  /\ [][\A it \in Items : OnlyItemCommitted(it) =>
          /\ insertCalls'[identity(it)] = insertCalls[identity(it)]
          /\ \A p \in PassIds :
               (passes[p].pc = "parseURL" /\ passes'[p].pc \notin {"parseURL", "idle"})
                 => Head(passes'[p].items) # it]_vars

\* The first pass has committed the item without a guid, returned and
\* registered the trigger; the second pass awaits its feed.
C23_Witness ==
  /\ OnlyItemCommitted(ItemB)
  /\ posted = <<PostRecordOf(ItemB)>>
  /\ cronScheduled
  /\ passes[1].pc = "parseURL"

\* ------------------------------------------------- generateSlug by itself
\* Longest title of the exhaustive part of the title set.
MaxTitleLen == 3

\* a letter of each case, a digit, the two whitespace characters and three
\* punctuation characters.
TitleChars == {"A", "b", "0", " ", "\t", "!", "-", "_"}

\* The titles generateSlug is applied to: every short title over TitleChars,
\* the documented example, and titles around the 100-character cut.
SlugTitles ==
  SeqsUpTo(TitleChars, MaxTitleLen)
    \cup {<<"P", "h", "o", "n", "e", " ", "X", " ",
            "L", "a", "u", "n", "c", "h", "e", "d">>}
    \cup {[j \in 1..n |-> IF j % 40 = 0 THEN " " ELSE "a"] :
            n \in {SlugMaxLen - 1, SlugMaxLen, SlugMaxLen + 1, SlugMaxLen + 20}}

InitSlug ==
  /\ env = Credentials
  /\ MODE = "cron"
  /\ MAX_ITEMS_PER_RUN = 1
  /\ proc = "running"
  /\ passes = NoPass
  /\ cronScheduled = FALSE
  /\ posted = <<>>
  /\ PROCESSED_CACHE = {}
  /\ published = ZeroCount
  /\ insertCalls = ZeroCount
  /\ ledgerWriteFailed = FALSE
  /\ restarts = 0
  /\ program \in {"part_000", "part_001/1"}
  /\ call = NoCall
  /\ feedItems = <<>>
  /\ candidates = NotComputed
  /\ \E t \in SlugTitles : slugCall = [title |-> t, slug |-> <<>>, done |-> FALSE]
  /\ rewriterSkipped = {}

\* generateSlug(title) is called and returns.
SlugGenerated ==
  /\ ~slugCall.done
  /\ slugCall' = [slugCall EXCEPT !.slug = generateSlug(slugCall.title), !.done = TRUE]
  /\ UNCHANGED <<config, proc, cronScheduled, posted, PROCESSED_CACHE, passes,
                 published, insertCalls, ledgerWriteFailed, restarts, call,
                 feedItems, candidates, rewriterSkipped>>

SpecSlug == InitSlug /\ [][SlugGenerated]_vars

\* C24: generateSlug is deterministic and returns at most 100 characters,
\* all lowercase, none of them a punctuation character (the hyphens that
\* stand for whitespace apart), with one hyphen per run of whitespace;
\* "Phone X Launched" yields "phone-x-launched".
C24_SlugIsClean ==
  slugCall.done =>
    LET t == slugCall.title
        s == slugCall.slug
    IN  /\ s = generateSlug(t)
        /\ Len(s) <= SlugMaxLen
        /\ \A i \in 1..Len(s) :
             /\ toLowerCase(s[i]) = s[i]
             /\ s[i] \notin SpaceChars
             /\ s[i] \notin {"!", "_"}
        /\ Cardinality({i \in 1..Len(s) : s[i] = "-"}) <=
             Cardinality({i \in 1..Len(t) :
                /\ t[i] \in SpaceChars
                /\ i = 1 \/ t[i - 1] \notin SpaceChars})
        /\ (t # <<>> /\ t[1] = "P") =>
             s = <<"p", "h", "o", "n", "e", "-", "x", "-",
                   "l", "a", "u", "n", "c", "h", "e", "d">>

\* ------------------------------------- part_001, first program: three keys
\* Some PostRecord has the guid, the link or the title slug of `it`.
RecordedAs(it) ==
  \E r \in Rows(posted) :
    \/ r.guid = identity(it)
    \/ r.link = it.link
    \/ r.title_slug = generateSlug(it.title)

\* C25: in the first program of part_001 hasBeenPosted(guid, link, title)
\* is true exactly when a PostRecord has the guid, the link or the title
\* slug; the loop never takes up an item for which that holds, and while no
\* pass holds such an item the Publisher is not called for it.
C25_ThreeKeyDuplicate ==
  /\ [](program = "part_001/1" =>
          \A it \in Items :
            hasBeenPosted_p1(posted, identity(it), it.link, it.title) <=> RecordedAs(it))
  /\ [][program = "part_001/1" =>
          /\ \A p \in PassIds :
               (/\ passes'[p].pc = "concealLogoAndResize"
                /\ passes[p].pc # "concealLogoAndResize")
                 => ~RecordedAs(passes'[p].items[passes'[p].i])
          /\ \A it \in Items :
               (RecordedAs(it) /\ \A p \in PassIds : HoldsItem(p) => CurrentItem_s(p) # it)
                 => insertCalls'[identity(it)] = insertCalls[identity(it)]]_vars

\* A pass has published and recorded the first item of its batch; the next
\* one has another guid and another link, and a title with the same slug.
C25_Witness ==
  /\ program = "part_001/1"
  /\ \E p \in PassIds :
       /\ passes[p].pc = "sleep"
       /\ passes[p].items = <<ItemA, ItemC>>
       /\ passes[p].i = 1
  /\ \A r \in Rows(posted) : r.guid # identity(ItemC) /\ r.link # ItemC.link
  /\ RecordedAs(ItemC)
  /\ insertCalls[identity(ItemC)] = 0

\* ------------------------------------ app.js, third program: image check
\* The items of the batch whose loop body goes past `if (!imageUrl) continue`:
\* the items a pass can call blogger.posts.insert for.
pastImageCheck_app3(its) ==
  SelectSeq(its, LAMBDA item : imageUrlOf(item.content) # NoImage)

\* C26: in the third program of app.js items without an image take no batch
\* slot: when at least N items of the feed are unposted and have an image,
\* N items of the batch reach the Publisher.
C26_ImagelessTakeNoSlot ==
  (program = "app.js/3" /\ candidates.computed) =>
    (Cardinality({i \in FreshIdx : imageUrlOf(feedItems[i].content) # NoImage})
        >= MAX_ITEMS_PER_RUN
      => Len(pastImageCheck_app3(candidates.items)) = MAX_ITEMS_PER_RUN)

\* ------------------------------- part_001, first program: the article body
\* What the model can answer: up to two elements, each a paragraph, a
\* hyperlink, an image or a figure.
RewriterAnswers ==
  SeqsUpTo({Para, Img("http://r/1.jpg"), [tag |-> "a", src |-> ""],
            [tag |-> "figure", src |-> ""]}, 2)

\* The three replace calls of rewriteWithOpenAI: a hyperlink becomes its
\* text, images and figures are removed.
sanitize_p1(html) ==
  SelectSeq([i \in 1..Len(html) |->
               IF html[i].tag = "a" THEN [tag |-> "text", src |-> ""] ELSE html[i]],
            LAMBDA e : e.tag \notin {"img", "figure"})

\* The values `rewritten` can have for an item with this content: the
\* sanitized answer or, from the catch block, the failure notice followed by
\* the item's content in a paragraph.
rewrittenHtml_p1(label, content) ==
  IF label = "fallback"
    THEN {<<Para, Para>> \o content}
    ELSE {sanitize_p1(answer) : answer \in RewriterAnswers}

\* C27: in the first program of part_001 the article body that
\* blogger.posts.insert is called with holds no hyperlink, image or figure
\* element of the source or of the rewriter, whether the rewriter answered
\* or failed.
C27_BodyIsSanitized ==
  \A p \in PassIds :
    (program = "part_001/1" /\ passes[p].pc = "posts_insert") =>
      \A html \in rewrittenHtml_p1(passes[p].rewritten, CurrentItem_s(p).content) :
        \A i \in 1..Len(html) : html[i].tag \notin {"a", "img", "figure"}

\* ------------------------------------- app.js, second program (multi-feed)
\* RSS_FEEDS_TO_PROCESS, split at the commas.
FeedUrls == <<"f1", "f2">>

\* The items the feeds serve.  pubDate 0 stands for an item without
\* <pubDate> (pubDateParsed = new Date(0)); the last item has neither guid
\* nor link and the latest date.
Entries_app2 ==
  <<[guid |-> "g1",   link |-> "l1", pubDate |-> 1],
    [guid |-> NoGuid, link |-> "l2", pubDate |-> 2],
    [guid |-> "g3",   link |-> "l3", pubDate |-> 0],
    [guid |-> NoGuid, link |-> "",   pubDate |-> 3]>>

\* What parser.parseURL can resolve to, for either feed.
Snapshots_app2 ==
  {[k \in 1..Len(ix) |-> Entries_app2[ix[k]]] :
     ix \in {<<>>, <<1>>, <<4>>, <<2, 3>>, <<4, 1>>, <<3, 3>>, <<1, 2, 3>>, <<3, 1, 4, 2>>}}

\* SELECT 1 FROM posted WHERE guid = ? OR link = ?   (both bound to guidOrLink)
hasBeenPosted_app2(tbl, guidOrLink) ==
  \E r \in Rows(tbl) : r.guid = guidOrLink \/ r.link = guidOrLink

\* INSERT OR IGNORE INTO posted (guid, link, title, published_at, feed_url);
\* the rows stay in the order of posted_at.
markPosted_app2(tbl, guid, link, feed_url) ==
  IF \E r \in Rows(tbl) : r.guid = guid \/ r.link = link
    THEN tbl
    ELSE Append(tbl, [id |-> MaxId(tbl) + 1, guid |-> guid, link |-> link,
                      feed_url |-> feed_url])

\* The round-robin choice at the head of processOnce: the feed after the
\* feed_url of getLastProcessedFeed() (the latest row), or the first feed.
feedToProcess(tbl) ==
  IF tbl # <<>> /\ Len(FeedUrls) > 1
    THEN LET last == tbl[Len(tbl)].feed_url
             at   == {k \in 1..Len(FeedUrls) : FeedUrls[k] = last}
             lastIndex == IF at = {} THEN -1
                          ELSE (CHOOSE k \in at : \A j \in at : k <= j) - 1
         IN  FeedUrls[((lastIndex + 1) % Len(FeedUrls)) + 1]
    ELSE FeedUrls[1]

\* The selection with the sort left out: the first unposted item.
primaryItemUnsorted(feed, tbl) ==
  LET allItems == SubSeq(feed, 1, Min(3, Len(feed)))
      unposted == {i \in 1..Len(allItems) :
                     /\ identity(allItems[i]) # ""
                     /\ ~hasBeenPosted_app2(tbl, identity(allItems[i]))}
  IN  IF unposted = {} THEN 0 ELSE CHOOSE i \in unposted : \A j \in unposted : i <= j

\* Steps 2 to 4 of processOnce: feed.items.slice(0, 3), the filter on the
\* identifier and on hasBeenPosted, the (stable) sort by descending date and
\* unpostedItems[0].  The position of primaryItem in allItems; 0 when
\* unpostedItems is empty.
primaryItem(feed, tbl) ==
  LET allItems == SubSeq(feed, 1, Min(3, Len(feed)))
      unposted == {i \in 1..Len(allItems) :
                     /\ identity(allItems[i]) # ""
                     /\ ~hasBeenPosted_app2(tbl, identity(allItems[i]))}
  IN  IF unposted = {} THEN 0
      ELSE CHOOSE i \in unposted : \A j \in unposted :
             \/ allItems[j].pubDate < allItems[i].pubDate
             \/ allItems[j].pubDate = allItems[i].pubDate /\ i <= j

\* A slot in which no processOnce is in progress; feedToProcess, the items
\* of `feed` and the position of primaryItem are the locals of the pass.
IdlePass_r == [pc |-> "idle", feedToProcess |-> "", feed |-> <<>>, primaryItem |-> 0]

\* processOnce returns; start() continues when it awaited this pass.
ReturnFromPass_r(p) ==
  /\ passes' = [passes EXCEPT ![p] = IdlePass_r]
  /\ IF ~cronScheduled
       THEN IF MODE = "once"
              THEN proc' = "exit0" /\ UNCHANGED cronScheduled
              ELSE cronScheduled' = TRUE /\ UNCHANGED proc
       ELSE UNCHANGED <<proc, cronScheduled>>

\* The item the pass has selected.
CurrentItem_r(p) == passes[p].feed[passes[p].primaryItem]

\* The cron trigger fires: processOnce picks its target feed and awaits
\* parser.parseURL(feedToProcess).
CronTick_app2(p) ==
  /\ proc = "running"
  /\ cronScheduled
  /\ passes[p].pc = "idle"
  /\ passes' = [passes EXCEPT ![p] =
       [IdlePass_r EXCEPT !.pc = "parseURL", !.feedToProcess = feedToProcess(posted)]]
  /\ UNCHANGED <<config, aux, proc, cronScheduled, posted, PROCESSED_CACHE, published,
                 insertCalls, ledgerWriteFailed, restarts>>

\* await parser.parseURL settles: it rejected (return), or the newest
\* unposted item of the first three is selected (return when there is none).
FeedFetched_app2(p) ==
  /\ proc = "running"
  /\ passes[p].pc = "parseURL"
  /\ \/ ReturnFromPass_r(p)
     \/ \E feed \in Snapshots_app2 :
          LET i == primaryItem(feed, posted)
          IN  IF i = 0
                THEN ReturnFromPass_r(p)
                ELSE /\ passes' = [passes EXCEPT ![p].pc = "generateArticleAndMetadata",
                                                 ![p].feed = feed, ![p].primaryItem = i]
                     /\ UNCHANGED <<proc, cronScheduled>>
  /\ UNCHANGED <<config, aux, posted, PROCESSED_CACHE, published, insertCalls,
                 ledgerWriteFailed, restarts>>

\* await generateArticleAndMetadata settles: it threw (return) or returned
\* an object with the five required fields.
ArticleGenerated_app2(p) ==
  /\ proc = "running"
  /\ passes[p].pc = "generateArticleAndMetadata"
  /\ \/ ReturnFromPass_r(p)
     \/ /\ passes' = [passes EXCEPT ![p].pc = "fetchUnsplashImage"]
        /\ UNCHANGED <<proc, cronScheduled>>
  /\ UNCHANGED <<config, aux, posted, PROCESSED_CACHE, published, insertCalls,
                 ledgerWriteFailed, restarts>>

\* The code from an image call to createBloggerPost: meta_tags.split throws
\* when the field is no string (the outer catch ends the pass); otherwise
\* blogger.posts.insert is called.  The calls are counted up to
\* MaxInsertCalls.
CallCreatePost_app2(p) ==
  \/ /\ ReturnFromPass_r(p)
     /\ UNCHANGED insertCalls
  \/ /\ passes' = [passes EXCEPT ![p].pc = "createBloggerPost"]
     /\ insertCalls' = [insertCalls EXCEPT ![identity(CurrentItem_r(p))] =
                          Min(@ + 1, MaxInsertCalls)]
     /\ UNCHANGED <<proc, cronScheduled>>

\* await fetchUnsplashImage settles: a URL, or null (no key, no result, an
\* error), with which the post is created without an image.
UnsplashFetched_app2(p) ==
  /\ proc = "running"
  /\ passes[p].pc = "fetchUnsplashImage"
  /\ \/ /\ passes' = [passes EXCEPT ![p].pc = "uploadExternalImageToBlogger"]
        /\ UNCHANGED <<proc, cronScheduled, insertCalls>>
     \/ CallCreatePost_app2(p)
  /\ UNCHANGED <<config, aux, posted, PROCESSED_CACHE, published, ledgerWriteFailed,
                 restarts>>

\* await uploadExternalImageToBlogger settles (the Blogger URL, or null and
\* the Unsplash URL is used).
ImageUploaded_app2(p) ==
  /\ proc = "running"
  /\ passes[p].pc = "uploadExternalImageToBlogger"
  /\ CallCreatePost_app2(p)
  /\ UNCHANGED <<config, aux, posted, PROCESSED_CACHE, published, ledgerWriteFailed,
                 restarts>>

\* await createBloggerPost settles: it threw (return), or the post exists
\* and markPosted records it with the feed it came from.
PostCreated_app2(p) ==
  /\ proc = "running"
  /\ passes[p].pc = "createBloggerPost"
  /\ \/ /\ ReturnFromPass_r(p)
        /\ UNCHANGED <<posted, published>>
     \/ LET item == CurrentItem_r(p)
        IN  /\ published' = Bump(published, identity(item))
            /\ posted' = markPosted_app2(posted, identity(item), item.link,
                                         passes[p].feedToProcess)
            /\ passes' = [passes EXCEPT ![p].pc = "sleep"]
            /\ UNCHANGED <<proc, cronScheduled>>
  /\ UNCHANGED <<config, aux, PROCESSED_CACHE, insertCalls, ledgerWriteFailed, restarts>>

\* await sleep(5000) settles and processOnce returns.
SleepDone_app2(p) ==
  /\ proc = "running"
  /\ passes[p].pc = "sleep"
  /\ ReturnFromPass_r(p)
  /\ UNCHANGED <<config, aux, posted, PROCESSED_CACHE, published, insertCalls,
                 ledgerWriteFailed, restarts>>

\* start() of the second program awaits the first pass, which targets the
\* first feed (the ledger is empty).
InitRotate ==
  /\ env = Credentials
  /\ program = "app.js/2"
  /\ MODE \in {"once", "cron"}
  /\ MAX_ITEMS_PER_RUN = 1
  /\ proc = "running"
  /\ cronScheduled = FALSE
  /\ posted = <<>>
  /\ PROCESSED_CACHE = {}
  /\ passes = [q \in PassIds |->
       IF q = 1 THEN [IdlePass_r EXCEPT !.pc = "parseURL",
                                        !.feedToProcess = feedToProcess(<<>>)]
                ELSE IdlePass_r]
  /\ published = ZeroCount
  /\ insertCalls = ZeroCount
  /\ ledgerWriteFailed = FALSE
  /\ restarts = 0
  /\ call = NoCall
  /\ slugCall = NoSlugCall
  /\ rewriterSkipped = {}
  /\ feedItems = <<>>
  /\ candidates = NotComputed

NextRotate ==
  \/ \E p \in PassIds : CronTick_app2(p)
  \/ \E p \in PassIds : FeedFetched_app2(p)
  \/ \E p \in PassIds : ArticleGenerated_app2(p)
  \/ \E p \in PassIds : UnsplashFetched_app2(p)
  \/ \E p \in PassIds : ImageUploaded_app2(p)
  \/ \E p \in PassIds : PostCreated_app2(p)
  \/ \E p \in PassIds : SleepDone_app2(p)

\* The schedule keeps firing while the process runs, and every awaited call
\* settles (the HTTP calls carry timeouts).
SpecRotate ==
  /\ InitRotate
  /\ [][NextRotate]_vars
  /\ \A p \in PassIds :
       /\ WF_vars(CronTick_app2(p))
       /\ WF_vars(FeedFetched_app2(p))
       /\ WF_vars(ArticleGenerated_app2(p))
       /\ WF_vars(UnsplashFetched_app2(p))
       /\ WF_vars(ImageUploaded_app2(p))
       /\ WF_vars(PostCreated_app2(p))
       /\ WF_vars(SleepDone_app2(p))

\* C28: in the second program of app.js with two or more feeds, under
\* repeated passes every configured feed is the target of a pass again and
\* again.
C28_EveryFeedTargetedAgain ==
  MODE = "cron" =>
    \A k \in 1..Len(FeedUrls) :
      []<>(\E p \in PassIds :
             passes[p].pc = "parseURL" /\ passes[p].feedToProcess = FeedUrls[k])

\* An unposted item with an identifier at position j of the first three
\* items of `feed`.
Selectable(feed, j) ==
  /\ j \in 1..Min(3, Len(feed))
  /\ identity(feed[j]) # ""
  /\ \A r \in Rows(posted) : r.guid # identity(feed[j]) /\ r.link # identity(feed[j])

Skipped(id) ==
  \/ id \in rewriterSkipped
  \/ /\ insertCalls[id] >= 1
     /\ published[id] = 0
     /\ \A p \in PassIds :
          ~(passes[p].pc = "posts_insert" /\ identity(CurrentItem(p)) = id)

\* No pass in progress has an item with this identity left in its batch.
NoCopyLeft(id) ==
  \A p \in PassIds : \A k \in 1..Len(passes[p].items) :
    identity(passes[p].items[k]) # id

Items_app1 ==
  {[guid |-> g, link |-> l, title |-> T_c, content |-> BodyWithImage] :
     g \in {"g1", "g3"}, l \in Links}
  \cup {[ItemB EXCEPT !.content = BodyWithImage]}

\* One turn of the loop of processOnce for an item with an image, every
\* external call succeeding: hasBeenPosted(guid) is false, the post is
\* created, markPosted runs.  Posts are counted up to MaxInsertCalls.
ItemPosted_app1(item) ==
  /\ ~hasBeenPosted_app1(posted, identity(item))
  /\ published[identity(item)] < MaxInsertCalls
  /\ published' = Bump(published, identity(item))
  /\ insertCalls' = Bump(insertCalls, identity(item))
  /\ posted' = markPosted_app1(posted, identity(item), item.link, item.title).tbl
  /\ UNCHANGED <<config, aux, proc, cronScheduled, PROCESSED_CACHE, passes,
                 ledgerWriteFailed, restarts>>

InitLedger_app1 ==
  /\ env = Credentials
  /\ MODE = "cron"
  /\ MAX_ITEMS_PER_RUN \in 1..MaxBatch
  /\ proc = "running"
  /\ passes = NoPass_s
  /\ cronScheduled = TRUE
  /\ posted = <<>>
  /\ PROCESSED_CACHE = {}
  /\ published = ZeroCount
  /\ insertCalls = ZeroCount
  /\ ledgerWriteFailed = FALSE
  /\ restarts = 0
  /\ program = "app.js/1"
  /\ call = NoCall
  /\ slugCall = NoSlugCall
  /\ rewriterSkipped = {}
  /\ feedItems = <<>>
  /\ candidates = NotComputed

\* The items the passes of the first program of app.js publish and record,
\* one after the other.
SpecLedger_app1 ==
  InitLedger_app1 /\ [][\E item \in Items_app1 : ItemPosted_app1(item)]_vars

\* C31: in the first program of app.js, once an item was published and
\* markPosted has returned, hasBeenPosted is true for its identity from then
\* on, also when items with different guids share a link; no identity is
\* published a second time.
C31_PostedStaysPosted ==
  \A id \in Identities :
    /\ published[id] >= 1 => hasBeenPosted_app1(posted, id)
    /\ published[id] <= 1

\* ---- part_001, first program: recurring mode, a feed that no longer
\* changes, external calls that all succeed
\* Every settled call of the step is a success: parser.parseURL resolves to
\* the unchanged feed (feedItems), of which processOnce keeps
\* slice(0, MAX_ITEMS_PER_RUN); axios.get and the sharp pipeline give the
\* final buffer; media.insert gives a Blogger URL; the rewriter answers;
\* posts.insert resolves and stmt.run does not throw.
ServicesSucceed_p1 ==
  \A p \in PassIds :
    passes'[p] # passes[p] =>
      /\ passes[p].pc = "parseURL" =>
            LET its == SubSeq(feedItems, 1, Min(Len(feedItems), MAX_ITEMS_PER_RUN))
                k == NextPosition(its, 1, posted)
            IN  IF k > Len(its)
                  THEN passes'[p].pc = "idle"
                  ELSE passes'[p].pc = "concealLogoAndResize" /\ passes'[p].items = its
      /\ passes[p].pc = "concealLogoAndResize" => passes'[p].pc = "sharp"
      /\ passes[p].pc = "sharp" => passes'[p].pc = "uploadImageToBlogger"
      /\ passes[p].pc = "uploadImageToBlogger" => passes'[p].uploadedImageUrl = "blogger"
      /\ passes[p].pc = "rewriteWithOpenAI" => passes'[p].rewritten = "sanitized"
      /\ passes[p].pc = "posts_insert" =>
            /\ published' # published
            /\ ~ledgerWriteFailed'

\* start() with MODE=cron: the credentials are present, the first pass is
\* awaited, and the feed has the content it keeps.
InitStatic ==
  /\ program = "part_001/1"
  /\ MODE = "cron"
  /\ MAX_ITEMS_PER_RUN \in 1..MaxBatch
  /\ proc = "running"
  /\ passes = FirstPass_s
  /\ env = Credentials
  /\ cronScheduled = FALSE
  /\ posted = <<>>
  /\ PROCESSED_CACHE = {}
  /\ published = ZeroCount
  /\ insertCalls = ZeroCount
  /\ ledgerWriteFailed = FALSE
  /\ restarts = 0
  /\ call = NoCall
  /\ slugCall = NoSlugCall
  /\ rewriterSkipped = {}
  /\ feedItems \in Feeds \ {<<>>}
  /\ candidates = NotComputed

\* The steps of the first program of part_001 whose calls succeed; a tick
\* of the schedule finds the previous pass ended.
NextStatic ==
  \/ TickSeq_p2 /\ ServicesSucceed_p1
  \/ \E p \in PassIds :
       \/ FeedFetched_p1(p) /\ ServicesSucceed_p1
       \/ ImageDownloaded_p1(p) /\ ServicesSucceed_p1
       \/ LogoConcealed_p1(p) /\ ServicesSucceed_p1
       \/ ImageUploaded_p1(p) /\ ServicesSucceed_p1
       \/ Rewritten_p1(p) /\ ServicesSucceed_p1
       \/ MetaGenerated_p1(p) /\ ServicesSucceed_p1
       \/ AltGenerated_p1(p) /\ ServicesSucceed_p1
       \/ PostInserted_p1(p) /\ ServicesSucceed_p1
       \/ SleepDone_p1(p) /\ ServicesSucceed_p1

\* The schedule keeps firing and every awaited call settles.
SpecStatic == InitStatic /\ [][NextStatic]_vars /\ WF_vars(NextStatic)

\* C32: in the first program of part_001 in recurring mode, with a feed that
\* no longer changes and external services that always succeed, every feed
\* item with an extractable image that is not in the ledger is eventually
\* published, whatever its position in the feed relative to the batch size.
C32_EveryItemEventuallyPublished ==
  \A k \in 1..MaxFeedLen :
    <>(k <= Len(feedItems) /\ imageUrlOf(feedItems[k].content) # NoImage
         => \/ published[identity(feedItems[k])] >= 1
            \/ RecordedAs(feedItems[k]))

\* ---- part_000: passes whose awaited calls all settle
\* The awaited call of pass p settles (it returns or fails) and processOnce
\* runs to its next await or to its end.
Settles(p) ==
  \/ FeedFetched(p)
  \/ ArticleGenerated(p)
  \/ UnsplashFetched(p)
  \/ ImageUploaded(p)
  \/ CategoryClassified(p)
  \/ PostInserted(p)
  \/ SleepDone(p)

\* Processes of part_000 that follow one another, each pass starting after
\* the one before it has returned, in which no awaited call stays pending
\* for ever.
SpecFair == Init /\ [][NextSeq]_vars /\ \A p \in PassIds : WF_vars(Settles(p))

\* The place of an await in the loop body of processOnce.
StageRank(pc) ==
  CASE pc = "parseURL" -> 0
    [] pc = "generateArticleAndMetadata" -> 1
    [] pc = "fetchUnsplashImage" -> 2
    [] pc = "uploadExternalImageToBlogger" -> 3
    [] pc = "classifyCategory" -> 4
    [] pc = "posts_insert" -> 5
    [] pc = "sleep" -> 6
    [] OTHER -> 7

\* A step of pass p that does not end it: the batch it starts with has at
\* most MAX_ITEMS_PER_RUN candidates; afterwards it either stays with its
\* candidate at a later await, or leaves the candidate for good and begins
\* the next one.
PassMovesOn(p) ==
  passes'[p] # passes[p] /\ InProgress(p) /\ passes'[p].pc # "idle" =>
    IF passes[p].pc = "parseURL"
      THEN /\ passes'[p].pc = "generateArticleAndMetadata"
           /\ Len(passes'[p].items) \in 1..MAX_ITEMS_PER_RUN
      ELSE \/ /\ passes'[p].items = passes[p].items
              /\ StageRank(passes'[p].pc) > StageRank(passes[p].pc)
           \/ /\ passes'[p].items = Tail(passes[p].items)
              /\ passes[p].pc \in {"generateArticleAndMetadata", "sleep"}
              /\ passes'[p].pc = "generateArticleAndMetadata"

\* blogger.posts.insert is called by one pass, for the candidate it is at,
\* on the step from classifyCategory.
PublisherCalledInTurn ==
  insertCalls' # insertCalls /\ restarts' = restarts =>
    \E p \in PassIds :
      /\ passes[p].pc = "classifyCategory"
      /\ passes'[p].pc = "posts_insert"
      /\ passes'[p].items = passes[p].items
      /\ insertCalls' = Bump(insertCalls, identity(CurrentItem(p)))
      /\ \A q \in PassIds \ {p} : passes'[q] = passes[q]

\* C33: every pass of part_000 ends, provided each external call returns or
\* fails: its batch has at most N candidates (N = MAX_ITEMS_PER_RUN), it
\* handles each of them at most once, going through the awaits of the loop
\* body in order, it calls the Publisher at most once per candidate, hence
\* at most N times, and then it ends.
C33_EveryPassEnds ==
  /\ [][(\A p \in PassIds : PassMovesOn(p)) /\ PublisherCalledInTurn]_vars
  /\ \A p \in PassIds : InProgress(p) ~> ~InProgress(p)

\* The pass that start() awaits, with N = 2, called the Publisher for its
\* first candidate and is now waiting for it on its second and last one.
C33_Witness ==
  /\ program = "part_000"
  /\ MAX_ITEMS_PER_RUN = 2
  /\ ~cronScheduled
  /\ restarts = 0
  /\ passes[1].pc = "posts_insert"
  /\ Len(passes[1].items) = 1
  /\ SumOver(insertCalls, Identities) = 2

====
